---- MODULE Spec2Model ----
(***************************************************************************)
(* A model of the Tableau-to-Power BI template converter of src/Abc.py     *)
(* (class TableauToPowerBIConverter).                                      *)
(*                                                                         *)
(* Text is modelled character by character: a Python str is a sequence of  *)
(* one-character strings, a Python bytes object is a sequence of numbers   *)
(* in 0..255.  A Python dict with string keys is a record "val" plus the   *)
(* set "keys" of the keys that are present.  A JSON-serialisable Python    *)
(* value is a tagged record (JStr, JNum, JBool, JNull, JArr, JObj).        *)
(***************************************************************************)
EXTENDS Integers, Sequences, FiniteSets, TLC

VARIABLES
  pc,                 \* position of the run inside main / convert_file / create_pbit_file
  input,              \* the input file: [kind, xml]
  tableau_data,       \* self.tableau_data (Abc.py:20, 907)
  template_structure, \* the dict returned by generate_minimal_pbit_structure
  temp_dir,           \* the staging directory "<base_name>_temp": [state, files]
  walk,               \* the file paths os.walk still has to yield (Abc.py:709)
  pbit,               \* the file at "<base_name>.pbit": [state, members, complete, run]
  created,            \* what create_pbit_file returned: "path", "none", or "pending"
  compat,             \* what test_pbit_compatibility returned
  result,             \* what convert_file returned
  exit_code,          \* the exit code of main
  prior,              \* the input of the call of convert_file this converter made before
  clock,              \* the time of the file system, in the 2-second units of a ZIP entry
  earlier,            \* the archive an earlier call of create_pbit_file wrote for the
                      \* same structure, kept by the caller
  disk,               \* two concurrent runs: the file system, path -> node
  runs                \* two concurrent runs: the locals of each create_pbit_file

\* the state of a single run
solo == <<pc, input, tableau_data, template_structure, temp_dir, walk, pbit,
          created, compat, result, exit_code>>

\* what the steps of a single run leave as it is
aux == <<prior, clock, earlier, disk, runs>>

vars == <<solo, aux>>

-----------------------------------------------------------------------------
(* Python str operations used by the converter.                            *)

Whitespace == {" ", "\t", "\n", "\r", "\f"}

RECURSIVE LStrip(_)
LStrip(s) ==
  IF s # <<>> /\ Head(s) \in Whitespace THEN LStrip(Tail(s)) ELSE s

RECURSIVE RStrip(_)
RStrip(s) ==
  IF s # <<>> /\ s[Len(s)] \in Whitespace THEN RStrip(SubSeq(s, 1, Len(s) - 1)) ELSE s

\* str.strip()
Strip(s) == RStrip(LStrip(s))

\* str.replace(c, '') for a one-character c
RemoveChar(s, c) == SelectSeq(s, LAMBDA x : x # c)

\* str.startswith(p)
StartsWith(s, p) == Len(s) >= Len(p) /\ SubSeq(s, 1, Len(p)) = p

UpperLetters == <<"A","B","C","D","E","F","G","H","I","J","K","L","M","N","O","P","Q","R","S","T","U","V","W","X","Y","Z">>
LowerLetters == <<"a","b","c","d","e","f","g","h","i","j","k","l","m","n","o","p","q","r","s","t","u","v","w","x","y","z">>

LowerOf ==
  [c \in {UpperLetters[i] : i \in 1..26} |->
     LowerLetters[CHOOSE i \in 1..26 : UpperLetters[i] = c]]

\* str.lower()
Lower(s) == [i \in 1..Len(s) |-> IF s[i] \in DOMAIN LowerOf THEN LowerOf[s[i]] ELSE s[i]]

RECURSIVE ConcatRange(_, _, _)
\* parts[lo] \o ... \o parts[hi], by halves
ConcatRange(parts, lo, hi) ==
  IF lo > hi THEN <<>>
  ELSE IF lo = hi THEN parts[lo]
  ELSE ConcatRange(parts, lo, (lo + hi) \div 2) \o ConcatRange(parts, ((lo + hi) \div 2) + 1, hi)

\* the concatenation of a sequence of strings (an f-string's pieces)
Concat(parts) == ConcatRange(parts, 1, Len(parts))

-----------------------------------------------------------------------------
(* Python dicts with string keys, and Element.get of xml.etree.            *)

\* dict.get(k, default) / Element.get(k, default)
DictGet(d, k, default) == IF k \in d.keys THEN d.val[k] ELSE default

-----------------------------------------------------------------------------
(* JSON-serialisable values.                                               *)

JStr(s) == [t |-> "str", s |-> s]
JNum(n) == [t |-> "num", n |-> n]
JBool(b) == [t |-> "bool", b |-> b]
JNull == [t |-> "null"]
JArr(items) == [t |-> "arr", items |-> items]
\* a dict in insertion order: kv is a sequence of <<key, value>>
JObj(kv) == [t |-> "obj", kv |-> kv]

\* key in dict
JHas(o, k) == \E i \in 1..Len(o.kv) : o.kv[i][1] = k

\* dict[key]; the last pair with the key is the one a dict keeps
JGet(o, k) ==
  o.kv[CHOOSE i \in 1..Len(o.kv) :
          /\ o.kv[i][1] = k
          /\ \A j \in (i + 1)..Len(o.kv) : o.kv[j][1] # k][2]

\* the cap on accepted columns (Abc.py:192)
ColumnCap == 10

-----------------------------------------------------------------------------
(* Extraction: parse_tableau_workbook and its helpers.  An XML element is  *)
(* its attributes (a dict) and the descendants the parser looks for.  Only *)
(* the attributes the converter reads after parsing are kept.              *)

\* _parse_datasource (Abc.py:80-113); e.connection is the result of
\* find('.//connection'): <<>> for None, else a one-element sequence
ParseDatasource(e) ==
  [keys |-> {"name", "connection", "columns"},
   val |->
     [name |-> DictGet(e.attrs, "name", <<>>),
      connection |->
        IF e.connection = <<>>
          THEN [keys |-> {},
                val |-> [class |-> <<>>, server |-> <<>>, port |-> <<>>,
                         dbname |-> <<>>, schema |-> <<>>]]
          ELSE [keys |-> {"class", "server", "port", "dbname", "schema"},
                val |-> [class |-> DictGet(e.connection[1], "class", <<>>),
                         server |-> DictGet(e.connection[1], "server", <<>>),
                         port |-> DictGet(e.connection[1], "port", <<>>),
                         dbname |-> DictGet(e.connection[1], "dbname", <<>>),
                         schema |-> DictGet(e.connection[1], "schema", <<>>)]],
      columns |->
        [i \in 1..Len(e.columns) |->
           [keys |-> {"name", "datatype"},
            val |-> [name |-> DictGet(e.columns[i], "name", <<>>),
                     datatype |-> DictGet(e.columns[i], "datatype", <<>>)]]]]]

RECURSIVE EncodingsDict(_)
\* ws_info['encodings'][attr] = {...} for each encoding element in document
\* order (Abc.py:132-140): a later element with the same attr replaces the
\* value and keeps the key's place
EncodingsDict(elems) ==
  IF elems = <<>> THEN <<>>
  ELSE LET before == EncodingsDict(SubSeq(elems, 1, Len(elems) - 1))
           e == elems[Len(elems)]
           attr == DictGet(e, "attr", <<>>)
           entry == <<attr, [field |-> DictGet(e, "field", <<>>)]>>
       IN IF \E i \in 1..Len(before) : before[i][1] = attr
            THEN [i \in 1..Len(before) |->
                    IF before[i][1] = attr THEN entry ELSE before[i]]
            ELSE Append(before, entry)

\* _parse_worksheet (Abc.py:115-142)
ParseWorksheet(e) ==
  [marks |-> [i \in 1..Len(e.marks) |->
                [class |-> DictGet(e.marks[i], "class", <<"A","u","t","o","m","a","t","i","c">>)]],
   encodings |-> EncodingsDict(e.encodings)]

\* the dict parse_tableau_workbook returns (Abc.py:49-74), and {} when the
\* document does not parse (Abc.py:76-78)
ParseTableauWorkbook(xml) ==
  IF ~xml.wellformed
    THEN [keys |-> {},
          val |-> [datasources |-> <<>>, worksheets |-> <<>>, dashboards |-> 0]]
    ELSE [keys |-> {"name", "datasources", "worksheets", "dashboards"},
          val |-> [datasources |-> [i \in 1..Len(xml.datasources) |->
                                      ParseDatasource(xml.datasources[i])],
                   worksheets |-> [i \in 1..Len(xml.worksheets) |->
                                     ParseWorksheet(xml.worksheets[i])],
                   dashboards |-> xml.dashboards]]

-----------------------------------------------------------------------------
(* Model build: generate_minimal_pbit_structure and its helpers.           *)

\* Mutation of MapPowerbiDatatype: the lookup takes the type as written,
\* without lower().
MapPowerbiDatatypeCaseSensitive(tableau_type) ==
  LET t == tableau_type
  IN CASE t = <<"s","t","r","i","n","g">> -> <<"s","t","r","i","n","g">>
       [] t = <<"i","n","t","e","g","e","r">> -> <<"i","n","t","6","4">>
       [] t = <<"r","e","a","l">> -> <<"d","o","u","b","l","e">>
       [] t = <<"d","a","t","e">> -> <<"d","a","t","e","T","i","m","e">>
       [] t = <<"d","a","t","e","t","i","m","e">> -> <<"d","a","t","e","T","i","m","e">>
       [] t = <<"b","o","o","l","e","a","n">> -> <<"b","o","o","l","e","a","n">>
       [] OTHER -> <<"s","t","r","i","n","g">>

\* _map_powerbi_datatype (Abc.py:635-645)
MapPowerbiDatatype(tableau_type) ==
  LET t == Lower(tableau_type)
  IN CASE t = <<"s","t","r","i","n","g">> -> <<"s","t","r","i","n","g">>
       [] t = <<"i","n","t","e","g","e","r">> -> <<"i","n","t","6","4">>
       [] t = <<"r","e","a","l">> -> <<"d","o","u","b","l","e">>
       [] t = <<"d","a","t","e">> -> <<"d","a","t","e","T","i","m","e">>
       [] t = <<"d","a","t","e","t","i","m","e">> -> <<"d","a","t","e","T","i","m","e">>
       [] t = <<"b","o","o","l","e","a","n">> -> <<"b","o","o","l","e","a","n">>
       [] OTHER -> <<"s","t","r","i","n","g">>

\* Mutation of GenerateEnhancedMQuery: the dispatch compares the class as
\* written, without lower().
GenerateEnhancedMQueryCaseSensitive(table_name, connection_info) ==
  LET conn_class == DictGet(connection_info, "class", <<>>)
      server == DictGet(connection_info, "server", <<"l","o","c","a","l","h","o","s","t">>)
      database == DictGet(connection_info, "dbname", <<"S","a","m","p","l","e","D","B">>)
      port == DictGet(connection_info, "port", <<>>)
      schema == DictGet(connection_info, "schema", <<"d","b","o">>)
      server_with_port ==
        IF port # <<>> THEN Concat(<<server, <<":">>, port>>) ELSE server
  IN CASE conn_class = <<"o","r","a","c","l","e">> ->
            Concat(<<<<"l","e","t","\n"," "," "," "," ","S","o","u","r","c","e"," ","="," ","O","r","a","c","l","e",".","D","a","t","a","b","a","s","e","(","\"">>, server_with_port,
                     <<"\"",","," ","\"">>, database, <<"\"",")",",","\n"," "," "," "," ">>,
                     schema, <<"_">>, table_name, <<" ","="," ","S","o","u","r","c","e","{","[","S","c","h","e","m","a","=","\"">>, schema,
                     <<"\"",",","I","t","e","m","=","\"">>, table_name, <<"\"","]","}","[","D","a","t","a","]","\n","i","n","\n"," "," "," "," ">>,
                     schema, <<"_">>, table_name>>)
       [] conn_class = <<"m","y","s","q","l">> ->
            Concat(<<<<"l","e","t","\n"," "," "," "," ","S","o","u","r","c","e"," ","="," ","M","y","S","Q","L",".","D","a","t","a","b","a","s","e","(","\"">>, server,
                     <<"\"",","," ","\"">>, database, <<"\"",")",",","\n"," "," "," "," ">>,
                     table_name, <<"_","T","a","b","l","e"," ","="," ","S","o","u","r","c","e","{","[","N","a","m","e","=","\"">>, table_name,
                     <<"\"","]","}","[","D","a","t","a","]","\n","i","n","\n"," "," "," "," ">>,
                     table_name, <<"_","T","a","b","l","e">>>>)
       [] conn_class = <<"p","o","s","t","g","r","e","s","q","l">> ->
            Concat(<<<<"l","e","t","\n"," "," "," "," ","S","o","u","r","c","e"," ","="," ","P","o","s","t","g","r","e","S","Q","L",".","D","a","t","a","b","a","s","e","(","\"">>, server,
                     <<"\"",","," ","\"">>, database, <<"\"",")",",","\n"," "," "," "," ">>,
                     schema, <<"_">>, table_name, <<" ","="," ","S","o","u","r","c","e","{","[","S","c","h","e","m","a","=","\"">>, schema,
                     <<"\"",",","I","t","e","m","=","\"">>, table_name, <<"\"","]","}","[","D","a","t","a","]","\n","i","n","\n"," "," "," "," ">>,
                     schema, <<"_">>, table_name>>)
       [] OTHER ->
            Concat(<<<<"l","e","t","\n"," "," "," "," ","S","o","u","r","c","e"," ","="," ","S","q","l",".","D","a","t","a","b","a","s","e","(","\"">>, server,
                     <<"\"",","," ","\"">>, database, <<"\"",")",",","\n"," "," "," "," ">>,
                     schema, <<"_">>, table_name, <<" ","="," ","S","o","u","r","c","e","{","[","S","c","h","e","m","a","=","\"">>, schema,
                     <<"\"",",","I","t","e","m","=","\"">>, table_name, <<"\"","]","}","[","D","a","t","a","]","\n","i","n","\n"," "," "," "," ">>,
                     schema, <<"_">>, table_name>>)

\* _generate_enhanced_m_query (Abc.py:586-633)
GenerateEnhancedMQuery(table_name, connection_info) ==
  LET conn_class == Lower(DictGet(connection_info, "class", <<>>))
      server == DictGet(connection_info, "server", <<"l","o","c","a","l","h","o","s","t">>)
      database == DictGet(connection_info, "dbname", <<"S","a","m","p","l","e","D","B">>)
      port == DictGet(connection_info, "port", <<>>)
      schema == DictGet(connection_info, "schema", <<"d","b","o">>)
      server_with_port ==
        IF port # <<>> THEN Concat(<<server, <<":">>, port>>) ELSE server
  IN CASE conn_class = <<"o","r","a","c","l","e">> ->
            Concat(<<<<"l","e","t","\n"," "," "," "," ","S","o","u","r","c","e"," ","="," ","O","r","a","c","l","e",".","D","a","t","a","b","a","s","e","(","\"">>, server_with_port,
                     <<"\"",","," ","\"">>, database, <<"\"",")",",","\n"," "," "," "," ">>,
                     schema, <<"_">>, table_name, <<" ","="," ","S","o","u","r","c","e","{","[","S","c","h","e","m","a","=","\"">>, schema,
                     <<"\"",",","I","t","e","m","=","\"">>, table_name, <<"\"","]","}","[","D","a","t","a","]","\n","i","n","\n"," "," "," "," ">>,
                     schema, <<"_">>, table_name>>)
       [] conn_class = <<"m","y","s","q","l">> ->
            Concat(<<<<"l","e","t","\n"," "," "," "," ","S","o","u","r","c","e"," ","="," ","M","y","S","Q","L",".","D","a","t","a","b","a","s","e","(","\"">>, server,
                     <<"\"",","," ","\"">>, database, <<"\"",")",",","\n"," "," "," "," ">>,
                     table_name, <<"_","T","a","b","l","e"," ","="," ","S","o","u","r","c","e","{","[","N","a","m","e","=","\"">>, table_name,
                     <<"\"","]","}","[","D","a","t","a","]","\n","i","n","\n"," "," "," "," ">>,
                     table_name, <<"_","T","a","b","l","e">>>>)
       [] conn_class = <<"p","o","s","t","g","r","e","s","q","l">> ->
            Concat(<<<<"l","e","t","\n"," "," "," "," ","S","o","u","r","c","e"," ","="," ","P","o","s","t","g","r","e","S","Q","L",".","D","a","t","a","b","a","s","e","(","\"">>, server,
                     <<"\"",","," ","\"">>, database, <<"\"",")",",","\n"," "," "," "," ">>,
                     schema, <<"_">>, table_name, <<" ","="," ","S","o","u","r","c","e","{","[","S","c","h","e","m","a","=","\"">>, schema,
                     <<"\"",",","I","t","e","m","=","\"">>, table_name, <<"\"","]","}","[","D","a","t","a","]","\n","i","n","\n"," "," "," "," ">>,
                     schema, <<"_">>, table_name>>)
       [] OTHER ->
            Concat(<<<<"l","e","t","\n"," "," "," "," ","S","o","u","r","c","e"," ","="," ","S","q","l",".","D","a","t","a","b","a","s","e","(","\"">>, server,
                     <<"\"",","," ","\"">>, database, <<"\"",")",",","\n"," "," "," "," ">>,
                     schema, <<"_">>, table_name, <<" ","="," ","S","o","u","r","c","e","{","[","S","c","h","e","m","a","=","\"">>, schema,
                     <<"\"",",","I","t","e","m","=","\"">>, table_name, <<"\"","]","}","[","D","a","t","a","]","\n","i","n","\n"," "," "," "," ">>,
                     schema, <<"_">>, table_name>>)

\* Mutation of GetTableauVisualType: the loop over the marks has no break,
\* so the last mark decides.
GetTableauVisualTypeLastMark(worksheet_data) ==
  LET marks == worksheet_data.marks
      encodings == worksheet_data.encodings
      attrs == {encodings[i][1] : i \in 1..Len(encodings)}
      mark_class == Lower(marks[Len(marks)].class)
      by_mark ==
        IF marks = <<>> THEN <<"c","o","l","u","m","n","C","h","a","r","t">>
        ELSE CASE mark_class \in {<<"b","a","r">>, <<"a","u","t","o","m","a","t","i","c">>} -> <<"c","o","l","u","m","n","C","h","a","r","t">>
               [] mark_class \in {<<"l","i","n","e">>} -> <<"l","i","n","e","C","h","a","r","t">>
               [] mark_class \in {<<"c","i","r","c","l","e">>, <<"s","h","a","p","e">>} -> <<"s","c","a","t","t","e","r","C","h","a","r","t">>
               [] mark_class \in {<<"s","q","u","a","r","e">>, <<"g","a","n","t","t","b","a","r">>} -> <<"b","a","r","C","h","a","r","t">>
               [] mark_class \in {<<"t","e","x","t">>} -> <<"t","a","b","l","e">>
               [] mark_class \in {<<"m","a","p">>} -> <<"m","a","p">>
               [] OTHER -> <<"c","o","l","u","m","n","C","h","a","r","t">>
  IN IF <<"c","o","l","o","r">> \in attrs /\ <<"s","i","z","e">> \in attrs THEN <<"s","c","a","t","t","e","r","C","h","a","r","t">>
     ELSE IF Len(encodings) >= 3 THEN <<"t","a","b","l","e">>
     ELSE by_mark

\* Mutation of GetTableauVisualType: the count of the encodings is tested
\* before the colour and size channels.
GetTableauVisualTypeTableFirst(worksheet_data) ==
  LET marks == worksheet_data.marks
      encodings == worksheet_data.encodings
      attrs == {encodings[i][1] : i \in 1..Len(encodings)}
      mark_class == Lower(marks[1].class)
      by_mark ==
        IF marks = <<>> THEN <<"c","o","l","u","m","n","C","h","a","r","t">>
        ELSE CASE mark_class \in {<<"b","a","r">>, <<"a","u","t","o","m","a","t","i","c">>} -> <<"c","o","l","u","m","n","C","h","a","r","t">>
               [] mark_class \in {<<"l","i","n","e">>} -> <<"l","i","n","e","C","h","a","r","t">>
               [] mark_class \in {<<"c","i","r","c","l","e">>, <<"s","h","a","p","e">>} -> <<"s","c","a","t","t","e","r","C","h","a","r","t">>
               [] mark_class \in {<<"s","q","u","a","r","e">>, <<"g","a","n","t","t","b","a","r">>} -> <<"b","a","r","C","h","a","r","t">>
               [] mark_class \in {<<"t","e","x","t">>} -> <<"t","a","b","l","e">>
               [] mark_class \in {<<"m","a","p">>} -> <<"m","a","p">>
               [] OTHER -> <<"c","o","l","u","m","n","C","h","a","r","t">>
  IN IF Len(encodings) >= 3 THEN <<"t","a","b","l","e">>
     ELSE IF <<"c","o","l","o","r">> \in attrs /\ <<"s","i","z","e">> \in attrs THEN <<"s","c","a","t","t","e","r","C","h","a","r","t">>
     ELSE by_mark

\* _get_tableau_visual_type (Abc.py:553-584): the loop over the marks breaks
\* after its first iteration
GetTableauVisualType(worksheet_data) ==
  LET marks == worksheet_data.marks
      encodings == worksheet_data.encodings
      attrs == {encodings[i][1] : i \in 1..Len(encodings)}
      mark_class == Lower(marks[1].class)
      by_mark ==
        IF marks = <<>> THEN <<"c","o","l","u","m","n","C","h","a","r","t">>
        ELSE CASE mark_class \in {<<"b","a","r">>, <<"a","u","t","o","m","a","t","i","c">>} -> <<"c","o","l","u","m","n","C","h","a","r","t">>
               [] mark_class \in {<<"l","i","n","e">>} -> <<"l","i","n","e","C","h","a","r","t">>
               [] mark_class \in {<<"c","i","r","c","l","e">>, <<"s","h","a","p","e">>} -> <<"s","c","a","t","t","e","r","C","h","a","r","t">>
               [] mark_class \in {<<"s","q","u","a","r","e">>, <<"g","a","n","t","t","b","a","r">>} -> <<"b","a","r","C","h","a","r","t">>
               [] mark_class \in {<<"t","e","x","t">>} -> <<"t","a","b","l","e">>
               [] mark_class \in {<<"m","a","p">>} -> <<"m","a","p">>
               [] OTHER -> <<"c","o","l","u","m","n","C","h","a","r","t">>
  IN IF <<"c","o","l","o","r">> \in attrs /\ <<"s","i","z","e">> \in attrs THEN <<"s","c","a","t","t","e","r","C","h","a","r","t">>
     ELSE IF Len(encodings) >= 3 THEN <<"t","a","b","l","e">>
     ELSE by_mark

\* Mutation of AcceptColumn: the loop body without the break at the cap.
AcceptColumnNoCap(acc, col) ==
  LET col_name == RemoveChar(RemoveChar(DictGet(col, "name", <<>>), "["), "]")
  IN IF /\ col_name # <<>>
        /\ ~StartsWith(col_name, <<"M","e","a","s","u","r","e">>)
        /\ Strip(col_name) # <<>>
        /\ col_name \notin acc.seen_columns
       THEN [columns |->
               Append(acc.columns,
                      [name |-> col_name,
                       dataType |->
                         MapPowerbiDatatype(DictGet(col, "datatype", <<"s","t","r","i","n","g">>))]),
             seen_columns |-> acc.seen_columns \cup {col_name},
             stop |-> FALSE]
       ELSE acc

\* Mutation of AcceptColumn: a repeated name replaces the type of the column
\* accepted under that name.
AcceptColumnLastWins(acc, col) ==
  LET col_name == RemoveChar(RemoveChar(DictGet(col, "name", <<>>), "["), "]")
      dataType == MapPowerbiDatatype(DictGet(col, "datatype", <<"s","t","r","i","n","g">>))
  IN IF acc.stop THEN acc
     ELSE IF /\ col_name # <<>>
             /\ ~StartsWith(col_name, <<"M","e","a","s","u","r","e">>)
             /\ Strip(col_name) # <<>>
       THEN IF col_name \in acc.seen_columns
              THEN [acc EXCEPT
                      !.columns =
                        [i \in 1..Len(@) |->
                           IF @[i].name = col_name
                             THEN [name |-> col_name, dataType |-> dataType]
                             ELSE @[i]]]
              ELSE LET columns ==
                         Append(acc.columns, [name |-> col_name, dataType |-> dataType])
                   IN [columns |-> columns,
                       seen_columns |-> acc.seen_columns \cup {col_name},
                       stop |-> Len(columns) >= ColumnCap]
       ELSE acc

\* the body of the column loop (Abc.py:184-193); acc.stop is the break
AcceptColumn(acc, col) ==
  LET col_name == RemoveChar(RemoveChar(DictGet(col, "name", <<>>), "["), "]")
  IN IF acc.stop THEN acc
     ELSE IF /\ col_name # <<>>
             /\ ~StartsWith(col_name, <<"M","e","a","s","u","r","e">>)
             /\ Strip(col_name) # <<>>
             /\ col_name \notin acc.seen_columns
       THEN LET columns ==
                  Append(acc.columns,
                         [name |-> col_name,
                          dataType |->
                            MapPowerbiDatatype(DictGet(col, "datatype", <<"s","t","r","i","n","g">>))])
            IN [columns |-> columns,
                seen_columns |-> acc.seen_columns \cup {col_name},
                stop |-> Len(columns) >= ColumnCap]
       ELSE acc

RECURSIVE ColumnLoop(_, _)
\* for col in ds.get('columns', []) (Abc.py:182-193)
ColumnLoop(acc, cols) ==
  IF cols = <<>> THEN acc ELSE ColumnLoop(AcceptColumn(acc, Head(cols)), Tail(cols))

\* Mutation of FallbackColumns: both sample columns typed as text.
FallbackColumnsAllText ==
  <<[name |-> <<"C","a","t","e","g","o","r","y">>, dataType |-> <<"s","t","r","i","n","g">>],
    [name |-> <<"V","a","l","u","e">>, dataType |-> <<"s","t","r","i","n","g">>]>>

\* the sample columns substituted for an empty list (Abc.py:196-200)
FallbackColumns ==
  <<[name |-> <<"C","a","t","e","g","o","r","y">>, dataType |-> <<"s","t","r","i","n","g">>],
    [name |-> <<"V","a","l","u","e">>, dataType |-> <<"d","o","u","b","l","e">>]>>

\* table_name of generate_minimal_pbit_structure (Abc.py:170-179)
TableName(tableau_data_) ==
  IF DictGet(tableau_data_, "datasources", <<>>) # <<>>
    THEN LET ds == tableau_data_.val.datasources[1]
             connection ==
               DictGet(ds, "connection",
                       [keys |-> {},
                        val |-> [class |-> <<>>, server |-> <<>>, port |-> <<>>,
                                 dbname |-> <<>>, schema |-> <<>>]])
             table_name ==
               DictGet(ds, "name", DictGet(connection, "schema", <<"S","a","m","p","l","e","D","a","t","a">>))
         IN IF StartsWith(table_name, <<"f","e","d","e","r","a","t","e","d",".">>) THEN <<"S","a","m","p","l","e","D","a","t","a">> ELSE table_name
    ELSE <<"S","a","m","p","l","e","D","a","t","a">>

RECURSIVE FirstAccepted(_)
FirstAccepted(datasources) ==
  IF datasources = <<>> THEN <<>>
  ELSE LET found == ColumnLoop([columns |-> <<>>, seen_columns |-> {}, stop |-> FALSE],
                               DictGet(Head(datasources), "columns", <<>>)).columns
       IN IF found # <<>> THEN found ELSE FirstAccepted(Tail(datasources))

\* Mutation of Columns: when the first datasource yields no column, the
\* later datasources are tried before the sample columns are used.
ColumnsAnyDatasource(tableau_data_) ==
  LET found == FirstAccepted(DictGet(tableau_data_, "datasources", <<>>))
  IN IF found = <<>> THEN FallbackColumns ELSE found

\* columns of generate_minimal_pbit_structure (Abc.py:171-200)
Columns(tableau_data_) ==
  LET found ==
        IF DictGet(tableau_data_, "datasources", <<>>) # <<>>
          THEN ColumnLoop([columns |-> <<>>, seen_columns |-> {}, stop |-> FALSE],
                          DictGet(tableau_data_.val.datasources[1], "columns", <<>>)).columns
          ELSE <<>>
  IN IF found = <<>> THEN FallbackColumns ELSE found

\* Mutation of MQuery: the query is built with the name of the datasource
\* as it is before the federated names are cleaned up.
MQueryRawName(tableau_data_) ==
  LET no_connection ==
        [keys |-> {},
         val |-> [class |-> <<>>, server |-> <<>>, port |-> <<>>,
                  dbname |-> <<>>, schema |-> <<>>]]
  IN IF DictGet(tableau_data_, "datasources", <<>>) # <<>>
       THEN GenerateEnhancedMQuery(
              DictGet(tableau_data_.val.datasources[1], "name", <<"S","a","m","p","l","e","D","a","t","a">>),
              DictGet(tableau_data_.val.datasources[1], "connection", no_connection))
       ELSE GenerateEnhancedMQuery(<<"S","a","m","p","l","e","D","a","t","a">>, no_connection)

\* m_query of generate_minimal_pbit_structure (Abc.py:202-209)
MQuery(tableau_data_) ==
  LET connection_info ==
        IF DictGet(tableau_data_, "datasources", <<>>) # <<>>
          THEN DictGet(tableau_data_.val.datasources[1], "connection",
                       [keys |-> {},
                        val |-> [class |-> <<>>, server |-> <<>>, port |-> <<>>,
                                 dbname |-> <<>>, schema |-> <<>>]])
          ELSE [keys |-> {},
                val |-> [class |-> <<>>, server |-> <<>>, port |-> <<>>,
                         dbname |-> <<>>, schema |-> <<>>]]
  IN GenerateEnhancedMQuery(TableName(tableau_data_), connection_info)

\* Mutation of DataModelSchema: only the columns of a number type are summed.
DataModelSchemaSumNumbers(table_name, columns, m_query) ==
  JObj(<<
    <<<<"v","e","r","s","i","o","n">>, JStr(<<"1",".","0">>)>>,
    <<<<"n","a","m","e">>, JStr(<<"S","e","m","a","n","t","i","c","M","o","d","e","l">>)>>,
    <<<<"c","o","m","p","a","t","i","b","i","l","i","t","y","L","e","v","e","l">>, JNum(1567)>>,
    <<<<"m","o","d","e","l">>, JObj(<<
      <<<<"c","u","l","t","u","r","e">>, JStr(<<"e","n","-","U","S">>)>>,
      <<<<"t","a","b","l","e","s">>, JArr(<<
        JObj(<<
          <<<<"n","a","m","e">>, JStr(table_name)>>,
          <<<<"c","o","l","u","m","n","s">>, JArr(
            [idx \in 1..Len(columns) |->
               JObj(<<
                 <<<<"n","a","m","e">>, JStr(columns[idx].name)>>,
                 <<<<"d","a","t","a","T","y","p","e">>, JStr(columns[idx].dataType)>>,
                 <<<<"s","u","m","m","a","r","i","z","e","B","y">>,
                   JStr(IF columns[idx].dataType \in {<<"i","n","t","6","4">>, <<"d","o","u","b","l","e">>}
                          THEN <<"s","u","m">> ELSE <<"n","o","n","e">>)>>,
                 <<<<"d","i","s","p","l","a","y","O","r","d","i","n","a","l">>, JNum(idx - 1)>> >>)])>>,
          <<<<"p","a","r","t","i","t","i","o","n","s">>, JArr(<<
            JObj(<<
              <<<<"n","a","m","e">>, JStr(Concat(<<table_name, <<"-","P","a","r","t","i","t","i","o","n">>>>))>>,
              <<<<"s","o","u","r","c","e">>, JObj(<<
                <<<<"t","y","p","e">>, JStr(<<"m">>)>>,
                <<<<"e","x","p","r","e","s","s","i","o","n">>, JStr(m_query)>> >>)>> >>) >>)>> >>) >>)>> >>)>> >>)

\* data_model_schema (Abc.py:216-290).  Of the constant entries only those
\* the package contract names are kept; lineageTag (a fresh uuid4) is left out.
DataModelSchema(table_name, columns, m_query) ==
  JObj(<<
    <<<<"v","e","r","s","i","o","n">>, JStr(<<"1",".","0">>)>>,
    <<<<"n","a","m","e">>, JStr(<<"S","e","m","a","n","t","i","c","M","o","d","e","l">>)>>,
    <<<<"c","o","m","p","a","t","i","b","i","l","i","t","y","L","e","v","e","l">>, JNum(1567)>>,
    <<<<"m","o","d","e","l">>, JObj(<<
      <<<<"c","u","l","t","u","r","e">>, JStr(<<"e","n","-","U","S">>)>>,
      <<<<"t","a","b","l","e","s">>, JArr(<<
        JObj(<<
          <<<<"n","a","m","e">>, JStr(table_name)>>,
          <<<<"c","o","l","u","m","n","s">>, JArr(
            [idx \in 1..Len(columns) |->
               JObj(<<
                 <<<<"n","a","m","e">>, JStr(columns[idx].name)>>,
                 <<<<"d","a","t","a","T","y","p","e">>, JStr(columns[idx].dataType)>>,
                 <<<<"s","u","m","m","a","r","i","z","e","B","y">>,
                   JStr(IF columns[idx].dataType = <<"s","t","r","i","n","g">> THEN <<"n","o","n","e">> ELSE <<"s","u","m">>)>>,
                 <<<<"d","i","s","p","l","a","y","O","r","d","i","n","a","l">>, JNum(idx - 1)>> >>)])>>,
          <<<<"p","a","r","t","i","t","i","o","n","s">>, JArr(<<
            JObj(<<
              <<<<"n","a","m","e">>, JStr(Concat(<<table_name, <<"-","P","a","r","t","i","t","i","o","n">>>>))>>,
              <<<<"s","o","u","r","c","e">>, JObj(<<
                <<<<"t","y","p","e">>, JStr(<<"m">>)>>,
                <<<<"e","x","p","r","e","s","s","i","o","n">>, JStr(m_query)>> >>)>> >>) >>)>> >>) >>)>> >>)>> >>)

RECURSIVE FieldLoopAnyField(_, _, _)
\* Mutation of FieldLoop: the field of an encoding is taken without the test
\* that a column has its name.
FieldLoopAnyField(fields, encodings, columns) ==
  IF encodings = <<>> THEN fields
  ELSE LET attr == Head(encodings)[1]
           field == RemoveChar(RemoveChar(Head(encodings)[2].field, "["), "]")
           next ==
             IF field # <<>>
               THEN IF attr \in {<<"x">>, <<"c","o","l","u","m","n","s">>} THEN <<field, fields[2]>>
                    ELSE IF attr \in {<<"y">>, <<"r","o","w","s">>} THEN <<fields[1], field>>
                    ELSE fields
               ELSE fields
       IN FieldLoopAnyField(next, Tail(encodings), columns)

RECURSIVE FieldLoop(_, _, _)
\* the loop over encodings.items() (Abc.py:380-386); fields is
\* <<category_field, value_field>>
FieldLoop(fields, encodings, columns) ==
  IF encodings = <<>> THEN fields
  ELSE LET attr == Head(encodings)[1]
           field == RemoveChar(RemoveChar(Head(encodings)[2].field, "["), "]")
           next ==
             IF field # <<>> /\ \E i \in 1..Len(columns) : columns[i].name = field
               THEN IF attr \in {<<"x">>, <<"c","o","l","u","m","n","s">>} THEN <<field, fields[2]>>
                    ELSE IF attr \in {<<"y">>, <<"r","o","w","s">>} THEN <<fields[1], field>>
                    ELSE fields
               ELSE fields
       IN FieldLoop(next, Tail(encodings), columns)

\* visual_container (Abc.py:368-469); visual_id is a fresh uuid4.  The
\* entries kept are the geometry, the visual type, the projections, and of
\* the prototype query the entity and the names of the selected expressions.
VisualContainer(visual_id, worksheet, table_name, columns) ==
  LET visual_type == GetTableauVisualType(worksheet)
      fields ==
        FieldLoop(<<columns[1].name,
                    IF Len(columns) > 1 THEN columns[2].name ELSE columns[1].name>>,
                  worksheet.encodings, columns)
      category_field == fields[1]
      value_field == fields[2]
  IN JObj(<<
       <<<<"i","d">>, JStr(visual_id)>>,
       <<<<"x">>, JNum(50)>>,
       <<<<"y">>, JNum(50)>>,
       <<<<"z">>, JNum(1000)>>,
       <<<<"w","i","d","t","h">>, JNum(600)>>,
       <<<<"h","e","i","g","h","t">>, JNum(400)>>,
       <<<<"c","o","n","f","i","g">>, JObj(<<
         <<<<"s","i","n","g","l","e","V","i","s","u","a","l">>, JObj(<<
           <<<<"v","i","s","u","a","l","T","y","p","e">>, JStr(visual_type)>>,
           <<<<"p","r","o","j","e","c","t","i","o","n","s">>, JObj(<<
             <<<<"C","a","t","e","g","o","r","y">>, JArr(<<JObj(<<
                <<<<"q","u","e","r","y","R","e","f">>, JStr(Concat(<<table_name, <<".">>, category_field>>))>> >>)>>)>>,
             <<<<"Y">>, JArr(<<JObj(<<
                <<<<"q","u","e","r","y","R","e","f">>, JStr(Concat(<<table_name, <<".">>, value_field>>))>> >>)>>)>> >>)>>,
           <<<<"p","r","o","t","o","t","y","p","e","Q","u","e","r","y">>, JObj(<<
             <<<<"F","r","o","m">>, JArr(<<JObj(<<
                <<<<"N","a","m","e">>, JStr(<<"t">>)>>,
                <<<<"E","n","t","i","t","y">>, JStr(table_name)>> >>)>>)>>,
             <<<<"S","e","l","e","c","t">>, JArr(<<
                JObj(<< <<<<"N","a","m","e">>, JStr(Concat(<<table_name, <<".">>, category_field>>))>> >>),
                JObj(<< <<<<"N","a","m","e">>,
                          JStr(Concat(<<<<"S","u","m","(">>, table_name, <<".">>, value_field, <<")">>>>))>> >>)
                >>)>> >>)>> >>)>> >>)>> >>)

\* Mutation of ReportLayout: one visual container for every worksheet.
ReportLayoutPerWorksheet(tableau_data_, table_name, columns) ==
  JObj(<<
    <<<<"i","d">>, JStr(<<"i","d","-","r","e","p","o","r","t">>)>>,
    <<<<"p","a","g","e","s">>, JArr(<<
      JObj(<<
        <<<<"i","d">>, JStr(<<"i","d","-","s","e","c","t","i","o","n">>)>>,
        <<<<"w","i","d","t","h">>, JNum(1280)>>,
        <<<<"h","e","i","g","h","t">>, JNum(720)>>,
        <<<<"v","i","s","u","a","l","C","o","n","t","a","i","n","e","r","s">>, JArr(
           [i \in 1..Len(DictGet(tableau_data_, "worksheets", <<>>)) |->
              VisualContainer(<<"i","d","-","v","i","s","u","a","l">>, tableau_data_.val.worksheets[i],
                              table_name, columns)])>> >>) >>)>> >>)

\* report_layout (Abc.py:296-364, 366-472), without its constant display
\* entries; report_id, section_id and visual_id are fresh uuid4 values, here
\* three fixed distinct strings
ReportLayout(tableau_data_, table_name, columns) ==
  JObj(<<
    <<<<"i","d">>, JStr(<<"i","d","-","r","e","p","o","r","t">>)>>,
    <<<<"p","a","g","e","s">>, JArr(<<
      JObj(<<
        <<<<"i","d">>, JStr(<<"i","d","-","s","e","c","t","i","o","n">>)>>,
        <<<<"w","i","d","t","h">>, JNum(1280)>>,
        <<<<"h","e","i","g","h","t">>, JNum(720)>>,
        <<<<"v","i","s","u","a","l","C","o","n","t","a","i","n","e","r","s">>, JArr(
           IF DictGet(tableau_data_, "worksheets", <<>>) # <<>> /\ columns # <<>>
             THEN <<VisualContainer(<<"i","d","-","v","i","s","u","a","l">>, tableau_data_.val.worksheets[1],
                                    table_name, columns)>>
             ELSE <<>>)>> >>) >>)>> >>)

\* generate_minimal_pbit_structure (Abc.py:166-491)
GenerateMinimalPbitStructure(tableau_data_) ==
  LET table_name == TableName(tableau_data_)
      columns == Columns(tableau_data_)
      m_query == MQuery(tableau_data_)
  IN [DataModelSchema |-> DataModelSchema(table_name, columns, m_query),
      Layout |-> ReportLayout(tableau_data_, table_name, columns),
      Version |-> <<"4",".","0">>,
      Settings |-> JObj(<<
        <<<<"u","s","e","S","t","y","l","a","b","l","e","V","i","s","u","a","l","C","o","n","t","a","i","n","e","r","H","e","a","d","e","r">>, JBool(TRUE)>>,
        <<<<"e","x","p","o","r","t","D","a","t","a","M","o","d","e">>, JNum(1)>>,
        <<<<"u","s","e","N","e","w","F","i","l","t","e","r","P","a","n","e","E","x","p","e","r","i","e","n","c","e">>, JBool(TRUE)>> >>),
      Metadata |-> JObj(<<
        <<<<"v","e","r","s","i","o","n">>, JStr(<<"4",".","0">>)>>,
        <<<<"c","u","l","t","u","r","e">>, JStr(<<"e","n","-","U","S">>)>>,
        <<<<"m","o","d","i","f","i","e","d","T","i","m","e">>, JStr(<<"2","0","2","4","-","0","1","-","0","1","T","0","0",":","0","0",":","0","0",".","0","0","0","Z">>)>> >>)]

-----------------------------------------------------------------------------
(* Inputs.                                                                 *)

\* the longest list of arbitrary column elements of a datasource
MaxCols == 2

ColumnElem(name, datatype) ==
  [keys |-> {"name", "datatype"}, val |-> [name |-> name, datatype |-> datatype]]

\* column elements: plain and bracketed names, a repeat of a name with
\* another type, a name with leading whitespace, names the filter rejects,
\* and an element without attributes
ColumnPool ==
  { ColumnElem(<<"[","R","e","g","i","o","n","]">>, <<"s","t","r","i","n","g">>),
    ColumnElem(<<"[","A","m","o","u","n","t","]">>, <<"r","e","a","l">>),
    ColumnElem(<<"R","e","g","i","o","n">>, <<"R","E","A","L">>),
    ColumnElem(<<" ","R","e","g","i","o","n">>, <<"i","n","t","e","g","e","r">>),
    ColumnElem(<<"[","M","e","a","s","u","r","e"," ","1","]">>, <<"r","e","a","l">>),
    ColumnElem(<<"["," ","]">>, <<"s","t","r","i","n","g">>),
    [keys |-> {}, val |-> [name |-> <<>>, datatype |-> <<>>]] }

RECURSIVE SeqsUpTo(_, _)
\* the sequences over S of length at most n
SeqsUpTo(S, n) ==
  IF n = 0 THEN {<<>>}
  ELSE LET shorter == SeqsUpTo(S, n - 1)
       IN shorter \cup {Append(s, x) : s \in shorter, x \in S}

WideDigits == <<"0","1","2","3","4","5","6","7","8","9","a","b","c","d","e","f","g","h","i","j">>

\* n distinct acceptable columns [c0], [c1], ...
WideColumns(n) ==
  [i \in 1..n |-> ColumnElem(<<"[", "c", WideDigits[i], "]">>, <<"i","n","t","e","g","e","r">>)]

\* Scenario C of the specification with a repeated name: a Measure column
\* and a repeat of Region among eleven other acceptable columns
ScenarioCColumns ==
  <<ColumnElem(<<"[","R","e","g","i","o","n","]">>, <<"s","t","r","i","n","g">>), ColumnElem(<<"[","M","e","a","s","u","r","e"," ","1","]">>, <<"r","e","a","l">>),
    ColumnElem(<<"R","e","g","i","o","n">>, <<"R","E","A","L">>)>> \o WideColumns(ColumnCap)

\* the column lists of a datasource: every short list over the pool, and
\* lists around the cap with one pool column before or after them
ColumnLists ==
  SeqsUpTo(ColumnPool, MaxCols)
    \cup {ScenarioCColumns}
    \cup {p \o WideColumns(n) : p \in SeqsUpTo(ColumnPool, 1),
                                n \in {ColumnCap - 1, ColumnCap, ColumnCap + 1}}
    \cup {WideColumns(n) \o <<c>> : c \in ColumnPool,
                                    n \in {ColumnCap - 1, ColumnCap, ColumnCap + 1}}

ConnectionElem(class, schema_keys, schema) ==
  [keys |-> {"class", "server", "port", "dbname"} \cup schema_keys,
   val |-> [class |-> class, server |-> <<"d","b","1">>, port |-> <<"5","4","3","2">>,
            dbname |-> <<"s","h","o","p">>, schema |-> schema]]

\* find('.//connection'): none, one without a schema, one with a schema
ConnectionPool ==
  { <<>>,
    <<ConnectionElem(<<"p","o","s","t","g","r","e","s","q","l">>, {}, <<>>)>>,
    <<ConnectionElem(<<"p","o","s","t","g","r","e","s","q","l">>, {"schema"}, <<"s","a","l","e","s">>)>> }

\* the name attribute of a datasource: missing, plain, federated
DatasourceNamePool ==
  { [keys |-> {}, val |-> [name |-> <<>>]],
    [keys |-> {"name"}, val |-> [name |-> <<"O","r","d","e","r","s">>]],
    [keys |-> {"name"}, val |-> [name |-> <<"f","e","d","e","r","a","t","e","d",".","0","a","b","c">>]] }

FirstDatasources ==
  [attrs : DatasourceNamePool, connection : ConnectionPool, columns : ColumnLists]

\* a further datasource, with acceptable columns of its own
OtherDatasource ==
  [attrs |-> [keys |-> {"name"}, val |-> [name |-> <<"R","e","t","u","r","n","s">>]],
   connection |-> <<ConnectionElem(<<"M","y","S","Q","L">>, {"schema"}, <<"c","r","m">>)>>,
   columns |-> <<ColumnElem(<<"[","R","e","a","s","o","n","]">>, <<"s","t","r","i","n","g">>), ColumnElem(<<"[","C","o","u","n","t","]">>, <<"i","n","t","e","g","e","r">>)>>]

DatasourceLists ==
  {<<>>} \cup {<<d>> : d \in FirstDatasources}
         \cup {<<d, OtherDatasource>> : d \in FirstDatasources}

EncodingElem(attr, field) ==
  [keys |-> {"attr", "field"}, val |-> [attr |-> attr, field |-> field]]

MarkElem(class) == [keys |-> {"class"}, val |-> [class |-> class]]

WorksheetBar ==
  [marks |-> <<MarkElem(<<"B","a","r">>)>>,
   encodings |-> <<EncodingElem(<<"c","o","l","u","m","n","s">>, <<"[","R","e","g","i","o","n","]">>),
                   EncodingElem(<<"r","o","w","s">>, <<"[","A","m","o","u","n","t","]">>)>>]

WorksheetLine ==
  [marks |-> <<MarkElem(<<"L","i","n","e">>), MarkElem(<<"T","e","x","t">>)>>,
   encodings |-> <<EncodingElem(<<"c","o","l","o","r">>, <<"[","R","e","g","i","o","n","]">>),
                   EncodingElem(<<"s","i","z","e">>, <<"[","A","m","o","u","n","t","]">>)>>]

WorksheetLists ==
  { <<>>, <<WorksheetBar>>, <<WorksheetLine, WorksheetBar>>,
    <<WorksheetBar, WorksheetLine, WorksheetLine>> }

\* the datatype attribute of a column in several letter cases, unknown
\* types, the empty string, and a column without the attribute
DatatypePool ==
  { <<"s","t","r","i","n","g">>, <<"S","T","R","I","N","G">>, <<"i","n","t","e","g","e","r">>, <<"I","n","t","e","g","e","r">>, <<"r","e","a","l">>, <<"R","E","A","L">>, <<"d","a","t","e">>, <<"D","a","t","e">>,
    <<"d","a","t","e","t","i","m","e">>, <<"D","a","t","e","T","i","m","e">>, <<"b","o","o","l","e","a","n">>, <<"B","O","O","L","E","A","N">>, <<"f","l","o","a","t">>, <<"s","t","r">>, <<"d","a","t","e","s">>, <<>> }

\* one datasource whose columns differ in their datatype only
TypeWorkbooks ==
  {[wellformed |-> TRUE,
    datasources |->
      <<[attrs |-> [keys |-> {"name"}, val |-> [name |-> <<"O","r","d","e","r","s">>]],
         connection |-> <<>>,
         columns |-> <<ColumnElem(<<"[","R","e","g","i","o","n","]">>, t),
                       [keys |-> {"name"}, val |-> [name |-> <<"[","A","m","o","u","n","t","]">>, datatype |-> <<>>]]>>]>>,
    worksheets |-> <<>>,
    dashboards |-> 0] : t \in DatatypePool}

\* connection elements of every class the query builder knows, in several
\* letter cases, of unknown classes and without a class, each with and
\* without a port
QueryConnections ==
  {[keys |-> {"class", "server", "dbname", "schema"} \cup (IF port = <<>> THEN {} ELSE {"port"}),
    val |-> [class |-> class, server |-> <<"d","b","1">>, port |-> port,
             dbname |-> <<"s","h","o","p">>, schema |-> <<"s","a","l","e","s">>]] :
     class \in {<<"o","r","a","c","l","e">>, <<"O","R","A","C","L","E">>, <<"m","y","s","q","l">>, <<"M","y","S","Q","L">>, <<"p","o","s","t","g","r","e","s","q","l">>, <<"P","o","s","t","g","r","e","S","Q","L">>,
                <<"s","q","l","s","e","r","v","e","r">>, <<"o","r","a","c","l","e","2">>, <<>>},
     port \in {<<>>, <<"1","5","2","1">>}}

\* one datasource per connection element of QueryConnections
QueryWorkbooks ==
  {[wellformed |-> TRUE,
    datasources |->
      <<[attrs |-> [keys |-> {"name"}, val |-> [name |-> <<"O","r","d","e","r","s">>]],
         connection |-> <<c>>,
         columns |-> <<ColumnElem(<<"[","R","e","g","i","o","n","]">>, <<"s","t","r","i","n","g">>)>>]>>,
    worksheets |-> <<WorksheetBar>>,
    dashboards |-> 0] : c \in QueryConnections}

\* the class attribute of a mark: every class the lookup of
\* _get_tableau_visual_type knows, in several letter cases, a class it does
\* not know, and the empty string
MarkClassPool ==
  { <<"B","a","r">>, <<"b","a","r">>, <<"a","u","t","o","m","a","t","i","c">>, <<"A","U","T","O","M","A","T","I","C">>, <<"l","i","n","e">>, <<"L","i","n","e">>, <<"c","i","r","c","l","e">>, <<"S","h","a","p","e">>,
    <<"s","q","u","a","r","e">>, <<"G","a","n","t","t","B","a","r">>, <<"t","e","x","t">>, <<"T","E","X","T">>, <<"m","a","p">>, <<"M","a","p">>, <<"p","i","e">>, <<>> }

\* the mark elements of a worksheet: none, one without a class attribute,
\* one of each class, and one of each class followed by a text mark
MarkLists ==
  {<<>>, <<[keys |-> {}, val |-> [class |-> <<>>]]>>}
    \cup {<<MarkElem(c)>> : c \in MarkClassPool}
    \cup {<<MarkElem(c), MarkElem(<<"T","e","x","t">>)>> : c \in MarkClassPool}

\* the encoding elements of a worksheet: the channels that decide the chart
\* kind and the fields, attributes in another letter case, repeated
\* attributes, fields that are no column, empty fields
EncodingLists ==
  { <<>>,
    <<EncodingElem(<<"c","o","l","u","m","n","s">>, <<"[","R","e","g","i","o","n","]">>), EncodingElem(<<"r","o","w","s">>, <<"[","A","m","o","u","n","t","]">>)>>,
    <<EncodingElem(<<"c","o","l","o","r">>, <<"[","R","e","g","i","o","n","]">>), EncodingElem(<<"s","i","z","e">>, <<"[","A","m","o","u","n","t","]">>)>>,
    <<EncodingElem(<<"c","o","l","o","r">>, <<"[","R","e","g","i","o","n","]">>), EncodingElem(<<"s","i","z","e">>, <<"[","A","m","o","u","n","t","]">>),
      EncodingElem(<<"x">>, <<"[","A","m","o","u","n","t","]">>)>>,
    <<EncodingElem(<<"x">>, <<"[","A","m","o","u","n","t","]">>), EncodingElem(<<"y">>, <<"[","R","e","g","i","o","n","]">>),
      EncodingElem(<<"c","o","l","o","r">>, <<"[","R","e","g","i","o","n","]">>)>>,
    <<EncodingElem(<<"x">>, <<"[","A","m","o","u","n","t","]">>), EncodingElem(<<"x">>, <<"[","R","e","g","i","o","n","]">>),
      EncodingElem(<<"y">>, <<"[","A","m","o","u","n","t","]">>)>>,
    <<EncodingElem(<<"C","o","l","o","r">>, <<"[","R","e","g","i","o","n","]">>), EncodingElem(<<"S","i","z","e">>, <<"[","A","m","o","u","n","t","]">>)>>,
    <<EncodingElem(<<"x">>, <<"[","N","o","p","e","]">>), EncodingElem(<<"y">>, <<>>)>>,
    <<EncodingElem(<<"c","o","l","u","m","n","s">>, <<"[","A","m","o","u","n","t","]">>), EncodingElem(<<"x">>, <<"[","R","e","g","i","o","n","]">>),
      EncodingElem(<<"r","o","w","s">>, <<"[","R","e","g","i","o","n","]">>), EncodingElem(<<"y">>, <<"[","A","m","o","u","n","t","]">>),
      EncodingElem(<<"d","e","t","a","i","l">>, <<"[","R","e","g","i","o","n","]">>)>>,
    <<EncodingElem(<<"X">>, <<"[","A","m","o","u","n","t","]">>), EncodingElem(<<"t","o","o","l","t","i","p">>, <<"[","A","m","o","u","n","t","]">>)>>,
    <<EncodingElem(<<"s","i","z","e">>, <<"[","R","e","g","i","o","n","]">>), EncodingElem(<<"x">>, <<"[","R","e","g","i","o","n","]">>),
      EncodingElem(<<"c","o","l","o","r">>, <<"[","A","m","o","u","n","t","]">>), EncodingElem(<<"y">>, <<"[","R","e","g","i","o","n","]">>)>>,
    <<EncodingElem(<<"y">>, <<"[","R","e","g","i","o","n","]">>)>>,
    <<EncodingElem(<<"x">>, <<"A","m","o","u","n","t">>)>>,
    <<EncodingElem(<<"x">>, <<"["," ","R","e","g","i","o","n","]">>), EncodingElem(<<"r","o","w","s">>, <<"[","V","a","l","u","e","]">>)>>,
    <<EncodingElem(<<"y">>, <<"[","A","m","o","u","n","t","]">>), EncodingElem(<<"x">>, <<"[","A","m","o","u","n","t","]">>),
      EncodingElem(<<"y">>, <<"[","N","o","p","e","]">>)>> }

\* the worksheets the chart is checked on: every mark list with two lists
\* of encodings, and three mark lists with every list of encodings
ChartWorksheets ==
  [marks : MarkLists, encodings : {<<>>, WorksheetBar.encodings}]
    \cup [marks : {<<MarkElem(<<"B","a","r">>)>>, <<MarkElem(<<"t","e","x","t">>)>>,
                   <<MarkElem(<<"L","i","n","e">>), MarkElem(<<"T","e","x","t">>)>>},
          encodings : EncodingLists]

\* the columns of the datasource the chart is checked on: two, one, three,
\* and one the column loop rejects
ChartColumns ==
  { <<ColumnElem(<<"[","R","e","g","i","o","n","]">>, <<"s","t","r","i","n","g">>), ColumnElem(<<"[","A","m","o","u","n","t","]">>, <<"r","e","a","l">>)>>,
    <<ColumnElem(<<"[","R","e","g","i","o","n","]">>, <<"s","t","r","i","n","g">>)>>,
    <<ColumnElem(<<"[","Q","t","y","]">>, <<"i","n","t","e","g","e","r">>), ColumnElem(<<"[","R","e","g","i","o","n","]">>, <<"s","t","r","i","n","g">>),
      ColumnElem(<<"[","A","m","o","u","n","t","]">>, <<"r","e","a","l">>)>>,
    <<ColumnElem(<<"[","M","e","a","s","u","r","e"," ","N","a","m","e","s","]">>, <<"s","t","r","i","n","g">>)>> }

\* one datasource, and a chart worksheet alone or followed by another
\* worksheet and a dashboard
ChartWorkbooks ==
  {[wellformed |-> TRUE,
    datasources |->
      <<[attrs |-> [keys |-> {"name"}, val |-> [name |-> n]],
         connection |-> <<>>,
         columns |-> cols]>>,
    worksheets |-> <<ws>> \o rest,
    dashboards |-> IF rest = <<>> THEN 0 ELSE 1] :
     n \in {<<"O","r","d","e","r","s">>}, cols \in ChartColumns, ws \in ChartWorksheets,
     rest \in {<<>>, <<WorksheetLine>>}}

\* the workbook documents the model build is checked on
BuildWorkbooks ==
  [wellformed : {TRUE}, datasources : DatasourceLists,
   worksheets : WorksheetLists, dashboards : {0}]
    \cup TypeWorkbooks \cup QueryWorkbooks \cup ChartWorkbooks

-----------------------------------------------------------------------------
(* State before anything ran.                                              *)

NoData ==
  [keys |-> {}, val |-> [datasources |-> <<>>, worksheets |-> <<>>, dashboards |-> 0]]

NoStructure ==
  [DataModelSchema |-> JNull, Layout |-> JNull, Version |-> <<>>,
   Settings |-> JNull, Metadata |-> JNull]

-----------------------------------------------------------------------------
(* Characters and their code points.  The alphabet is printable ASCII,     *)
(* tab, line feed, carriage return, and two characters beyond ASCII:       *)
(* "U+00E9" (e acute) and "U+20AC" (euro sign); "U+0060" is the grave      *)
(* accent, which a TLA+ string cannot hold.                                *)

Printable ==
  <<" ","!","\"","#","$","%","&","'","(",")","*","+",",","-",".","/","0","1","2","3","4","5","6","7","8","9",":",";","<","=",">","?","@","A","B","C","D","E","F","G","H","I","J","K","L","M","N","O","P","Q","R","S","T","U","V","W","X","Y","Z","[","\\","]","^","_">>
    \o <<"U+0060">> \o <<"a","b","c","d","e","f","g","h","i","j","k","l","m","n","o","p","q","r","s","t","u","v","w","x","y","z","{","|","}","~">>

\* ord(c)
CodeOf ==
  [c \in {Printable[i] : i \in 1..Len(Printable)} \cup {"\t", "\n", "\r", "U+00E9", "U+20AC"} |->
     CASE c = "\t" -> 9
       [] c = "\n" -> 10
       [] c = "\r" -> 13
       [] c = "U+00E9" -> 233
       [] c = "U+20AC" -> 8364
       [] OTHER -> 31 + (CHOOSE i \in 1..Len(Printable) : Printable[i] = c)]

\* chr(n); a code point outside the alphabet is one opaque character
CharOf(n) ==
  CASE n \in 32..126 -> Printable[n - 31]
    [] n = 9 -> "\t"
    [] n = 10 -> "\n"
    [] n = 13 -> "\r"
    [] n = 233 -> "U+00E9"
    [] n = 8364 -> "U+20AC"
    [] OTHER -> "U+FFFF"

\* the concatenation of a sequence of sequences
Flatten(seqs) == Concat(seqs)

\* str.encode('utf-16le'): two bytes per code unit, low byte first
EncodeUtf16le(text) ==
  [i \in 1..(2 * Len(text)) |->
     IF (i % 2) = 1 THEN CodeOf[text[(i + 1) \div 2]] % 256
                    ELSE CodeOf[text[i \div 2]] \div 256]

\* bytes.decode('utf-16le'): an odd number of bytes or a lone surrogate is
\* a UnicodeDecodeError
DecodeUtf16le(bytes) ==
  LET units == [i \in 1..(Len(bytes) \div 2) |-> bytes[(2 * i) - 1] + (256 * bytes[2 * i])]
  IN IF (Len(bytes) % 2) = 1 \/ \E i \in 1..Len(units) : units[i] \in 55296..57343
       THEN [ok |-> FALSE, text |-> <<>>]
       ELSE [ok |-> TRUE, text |-> [i \in 1..Len(units) |-> CharOf(units[i])]]

\* the UTF-8 bytes of one character of the alphabet
Utf8Bytes(n) ==
  IF n < 128 THEN <<n>>
  ELSE IF n < 2048 THEN <<192 + (n \div 64), 128 + (n % 64)>>
  ELSE <<224 + (n \div 4096), 128 + ((n \div 64) % 64), 128 + (n % 64)>>

\* str.encode('utf-8'), which is what a text-mode file opened with
\* encoding='utf-8' writes for text without line breaks
EncodeUtf8(text) == Flatten([i \in 1..Len(text) |-> Utf8Bytes(CodeOf[text[i]])])

RECURSIVE DecodeUtf8From(_, _, _)
\* bytes.decode('utf-8') from index i on; one- to three-byte sequences
DecodeUtf8From(bytes, i, acc) ==
  IF i > Len(bytes) THEN [ok |-> TRUE, text |-> acc]
  ELSE LET b == bytes[i]
           cont(j) == j <= Len(bytes) /\ bytes[j] \in 128..191
       IN IF b < 128
            THEN DecodeUtf8From(bytes, i + 1, Append(acc, CharOf(b)))
          ELSE IF b \in 194..223 /\ cont(i + 1)
            THEN DecodeUtf8From(bytes, i + 2,
                   Append(acc, CharOf(((b - 192) * 64) + (bytes[i + 1] - 128))))
          ELSE IF b \in 224..239 /\ cont(i + 1) /\ cont(i + 2)
                  /\ ((b - 224) * 4096) + ((bytes[i + 1] - 128) * 64) >= 2048
                  /\ ((b - 224) * 4096) + ((bytes[i + 1] - 128) * 64) \notin 55296..57343
            THEN DecodeUtf8From(bytes, i + 3,
                   Append(acc, CharOf(((b - 224) * 4096) + ((bytes[i + 1] - 128) * 64)
                                      + (bytes[i + 2] - 128))))
          ELSE [ok |-> FALSE, text |-> <<>>]

DecodeUtf8(bytes) == DecodeUtf8From(bytes, 1, <<>>)

\* the UTF-16 little-endian byte order mark b'\xff\xfe'
BOM == <<255, 254>>

-----------------------------------------------------------------------------
(* json.dumps(value, ensure_ascii=False, separators=(',', ':')).           *)

Digits == <<"0","1","2","3","4","5","6","7","8","9">>

RECURSIVE NatText(_)
NatText(n) == IF n < 10 THEN <<Digits[n + 1]>> ELSE Append(NatText(n \div 10), Digits[(n % 10) + 1])

IntText(n) == IF n < 0 THEN <<"-">> \o NatText(-n) ELSE NatText(n)

\* the escape of one character inside a JSON string (ensure_ascii=False
\* leaves characters beyond ASCII as they are)
EscapeChar(c) ==
  CASE c = "\"" -> <<"\\","\"">>
    [] c = "\\" -> <<"\\","\\">>
    [] c = "\n" -> <<"\\","n">>
    [] c = "\r" -> <<"\\","r">>
    [] c = "\t" -> <<"\\","t">>
    [] OTHER -> <<c>>

StringText(s) == <<"\"">> \o Flatten([i \in 1..Len(s) |-> EscapeChar(s[i])]) \o <<"\"">>

\* sep.join(texts)
JoinTexts(texts, sep) ==
  Flatten([i \in 1..Len(texts) |-> IF i = 1 THEN texts[i] ELSE sep \o texts[i]])

RECURSIVE JsonDumpsWith(_, _, _)
\* json.dumps(v, ensure_ascii=False, separators=(item_separator, key_separator))
JsonDumpsWith(v, item_separator, key_separator) ==
  CASE v.t = "str" -> StringText(v.s)
    [] v.t = "num" -> IntText(v.n)
    [] v.t = "bool" -> IF v.b THEN <<"t","r","u","e">> ELSE <<"f","a","l","s","e">>
    [] v.t = "null" -> <<"n","u","l","l">>
    [] v.t = "arr" ->
         LET texts == SubSeq([i \in 1..Len(v.items) |->
                                JsonDumpsWith(v.items[i], item_separator, key_separator)],
                             1, Len(v.items))
         IN IF texts = <<>> THEN <<"[","]">>
            ELSE <<"[">> \o JoinTexts(texts, item_separator) \o <<"]">>
    [] v.t = "obj" ->
         LET texts == SubSeq([i \in 1..Len(v.kv) |->
                                StringText(v.kv[i][1]) \o key_separator
                                  \o JsonDumpsWith(v.kv[i][2], item_separator, key_separator)],
                             1, Len(v.kv))
         IN IF texts = <<>> THEN <<"{","}">>
            ELSE <<"{">> \o JoinTexts(texts, item_separator) \o <<"}">>

\* the call the converter makes: separators=(',', ':')
JsonDumps(v) == JsonDumpsWith(v, <<",">>, <<":">>)

-----------------------------------------------------------------------------------------------------------------------------------------------------
(* json.loads(text).  A parse result is [ok, val, pos]: pos is the index   *)
(* of the first character after the value that is not whitespace.  Numbers *)
(* are integers: no document of the model holds a fraction or an exponent. *)

JsonWhitespace == {" ", "\t", "\n", "\r"}

ParseError == [ok |-> FALSE, val |-> JNull, pos |-> 0]

RECURSIVE SkipWhitespace(_, _)
SkipWhitespace(text, i) ==
  IF i \in 1..Len(text) /\ text[i] \in JsonWhitespace THEN SkipWhitespace(text, i + 1) ELSE i

\* a value val that ends right before index end
Parsed(text, val, end) == [ok |-> TRUE, val |-> val, pos |-> SkipWhitespace(text, end)]

\* text[i..] starts with word
HasAt(text, i, word) ==
  i + Len(word) - 1 <= Len(text) /\ SubSeq(text, i, i + Len(word) - 1) = word

\* the number of consecutive backslashes that end right before index j and
\* start at index lo or later
BackslashRun(text, lo, j) ==
  CHOOSE k \in 0..(j - lo) :
    /\ \A m \in (j - k)..(j - 1) : text[m] = "\\"
    /\ k = j - lo \/ text[j - k - 1] # "\\"

\* the index of the quote that closes the string literal whose first
\* character is at index i; 0 when there is none
StringEnd(text, i) ==
  LET closes(j) == text[j] = "\"" /\ (BackslashRun(text, i, j) % 2) = 0
  IN IF \E j \in i..Len(text) : closes(j)
       THEN CHOOSE j \in i..Len(text) : closes(j) /\ \A m \in i..(j - 1) : ~closes(m)
       ELSE 0

\* the character an escape sequence \c stands for
Unescaped(c) ==
  CASE c = "n" -> "\n"
    [] c = "r" -> "\r"
    [] c = "t" -> "\t"
    [] OTHER -> c

\* the string literal whose opening quote is at index i - 1: control
\* characters are not allowed in it, and a backslash starts one of the
\* escapes \" \\ \/ \n \r \t
ParseStringBody(text, i) ==
  LET \* starts: the indices where a character or an escape sequence starts
      Literal(end, starts) ==
        IF end = 0 THEN ParseError
        ELSE IF \E k \in 1..Len(starts) :
                  \/ text[starts[k]] \in {"\t", "\n", "\r"}
                  \/ /\ text[starts[k]] = "\\"
                     /\ text[starts[k] + 1] \notin {"\"", "\\", "/", "n", "r", "t"}
          THEN ParseError
        ELSE Parsed(text,
                    JStr([k \in 1..Len(starts) |->
                            IF text[starts[k]] = "\\" THEN Unescaped(text[starts[k] + 1])
                            ELSE text[starts[k]]]),
                    end + 1)
      UpTo(end) ==
        Literal(end, SelectSeq([k \in 1..(end - i) |-> i + k - 1],
                               LAMBDA p : (BackslashRun(text, i, p) % 2) = 0))
  IN UpTo(StringEnd(text, i))

RECURSIVE ParseDigits(_, _, _)
\* the digits from index i on, as [n, pos]
ParseDigits(text, i, n) ==
  IF i <= Len(text) /\ \E d \in 1..10 : Digits[d] = text[i]
    THEN ParseDigits(text, i + 1, (10 * n) + (CHOOSE d \in 1..10 : Digits[d] = text[i]) - 1)
    ELSE [n |-> n, pos |-> i]

\* an integer literal: "-"? ("0" | [1-9][0-9]*)
ParseNumber(text, i) ==
  LET Number(neg, j, d) ==
        IF d.pos = j \/ (d.pos <= Len(text) /\ text[d.pos] \in {".", "e", "E"})
          THEN ParseError
          ELSE Parsed(text, JNum(IF neg THEN -d.n ELSE d.n), d.pos)
      Signed(neg, j) ==
        Number(neg, j, IF HasAt(text, j, <<"0">>) THEN [n |-> 0, pos |-> j + 1]
                       ELSE ParseDigits(text, j, 0))
  IN IF i <= Len(text) /\ text[i] = "-" THEN Signed(TRUE, i + 1) ELSE Signed(FALSE, i)

\* the key of an object member and its colon, from index i on; val is the
\* key and pos the index where the member's value starts
ParseKey(text, i) ==
  LET Colon(key) ==
        IF key.ok /\ key.pos <= Len(text) /\ text[key.pos] = ":"
          THEN Parsed(text, key.val.s, key.pos + 1)
          ELSE ParseError
  IN IF i <= Len(text) /\ text[i] = "\"" THEN Colon(ParseStringBody(text, i + 1))
     ELSE ParseError

\* "[" or "{" at index i is followed by its closing bracket
EmptyAt(text, i, close) == HasAt(text, SkipWhitespace(text, i + 1), close)

RECURSIVE ParseValue(_, _), ParseItems(_, _, _), ParseMembers(_, _, _, _)

\* the rest of an array: item is the item just parsed, acc the items
\* before it
ParseItems(text, acc, item) ==
  CASE ~item.ok \/ item.pos > Len(text) -> ParseError
    [] item.ok /\ HasAt(text, item.pos, <<",">>) ->
         ParseItems(text, Append(acc, item.val),
                    ParseValue(text, SkipWhitespace(text, item.pos + 1)))
    [] item.ok /\ HasAt(text, item.pos, <<"]">>) ->
         Parsed(text, JArr(Append(acc, item.val)), item.pos + 1)
    [] OTHER -> ParseError

\* the rest of an object: key and value are the member just parsed, acc
\* the members before it
ParseMembers(text, acc, key, value) ==
  CASE ~key.ok \/ ~value.ok \/ value.pos > Len(text) -> ParseError
    [] key.ok /\ value.ok /\ HasAt(text, value.pos, <<",">>) ->
         ParseMembers(text, Append(acc, <<key.val, value.val>>),
                      ParseKey(text, SkipWhitespace(text, value.pos + 1)),
                      ParseValue(text, ParseKey(text, SkipWhitespace(text, value.pos + 1)).pos))
    [] key.ok /\ value.ok /\ HasAt(text, value.pos, <<"}">>) ->
         Parsed(text, JObj(Append(acc, <<key.val, value.val>>)), value.pos + 1)
    [] OTHER -> ParseError

\* the value whose first character is at index i
ParseValue(text, i) ==
  CASE i > Len(text) -> ParseError
    [] HasAt(text, i, <<"\"">>) -> ParseStringBody(text, i + 1)
    [] HasAt(text, i, <<"[">>) /\ EmptyAt(text, i, <<"]">>) ->
         Parsed(text, JArr(<<>>), SkipWhitespace(text, i + 1) + 1)
    [] HasAt(text, i, <<"[">>) /\ ~EmptyAt(text, i, <<"]">>) ->
         ParseItems(text, <<>>, ParseValue(text, SkipWhitespace(text, i + 1)))
    [] HasAt(text, i, <<"{">>) /\ EmptyAt(text, i, <<"}">>) ->
         Parsed(text, JObj(<<>>), SkipWhitespace(text, i + 1) + 1)
    [] HasAt(text, i, <<"{">>) /\ ~EmptyAt(text, i, <<"}">>) ->
         ParseMembers(text, <<>>,
                      ParseKey(text, SkipWhitespace(text, i + 1)),
                      ParseValue(text, ParseKey(text, SkipWhitespace(text, i + 1)).pos))
    [] HasAt(text, i, <<"t","r","u","e">>) -> Parsed(text, JBool(TRUE), i + 4)
    [] HasAt(text, i, <<"f","a","l","s","e">>) -> Parsed(text, JBool(FALSE), i + 5)
    [] HasAt(text, i, <<"n","u","l","l">>) -> Parsed(text, JNull, i + 4)
    [] OTHER -> ParseNumber(text, i)

\* json.loads: one value, then nothing but whitespace
JsonLoads(text) ==
  LET Whole(v) ==
        IF v.ok /\ v.pos > Len(text)
          THEN [ok |-> TRUE, val |-> v.val]
          ELSE [ok |-> FALSE, val |-> JNull]
  IN Whole(ParseValue(text, SkipWhitespace(text, 1)))

-----------------------------------------------------------------------------
(* The package files.  A path is a string relative to the staging          *)
(* directory; the contents of a directory are a function from paths to     *)
(* bytes.                                                                   *)

\* the files create_pbit_file writes, in program order (Abc.py:658-700)
StagingWrites == <<"DataModelSchema", "Report/Layout", "Version", "Settings", "Metadata">>

\* the paths below the Report directory
InReport == {"Report/Layout"}

NoFiles == [p \in {} |-> <<>>]

\* open(path, 'wb') and write: the file is created or replaced
WriteFile(files, path, data) ==
  [p \in DOMAIN files \cup {path} |-> IF p = path THEN data ELSE files[p]]

\* Mutation of EncodeJsonMember: json.dumps is called without the
\* separators argument and writes ", " and ": ".
EncodeJsonMemberDefaultSeparators(doc) ==
  BOM \o EncodeUtf16le(JsonDumpsWith(doc, <<","," ">>, <<":"," ">>))

\* Mutation of EncodeJsonMember: the byte order mark is not written.
EncodeJsonMemberNoMark(doc) == EncodeUtf16le(JsonDumps(doc))

\* f.write(b'\xff\xfe'); f.write(json.dumps(...).encode('utf-16le'))
\* (Abc.py:660-665, 672-677, 686-691, 695-700)
EncodeJsonMember(doc) == BOM \o EncodeUtf16le(JsonDumps(doc))

\* open(..., 'w', encoding='utf-8') and f.write(template_structure['Version'])
\* (Abc.py:681-682)
EncodeVersion(text) == EncodeUtf8(text)

\* the bytes create_pbit_file writes to the staging file at path
StagedBytes(structure, path) ==
  CASE path = "DataModelSchema" -> EncodeJsonMember(structure.DataModelSchema)
    [] path = "Report/Layout" -> EncodeJsonMember(structure.Layout)
    [] path = "Version" -> EncodeVersion(structure.Version)
    [] path = "Settings" -> EncodeJsonMember(structure.Settings)
    [] path = "Metadata" -> EncodeJsonMember(structure.Metadata)

-----------------------------------------------------------------------------
(* Python's "in", indexing and truth on parsed JSON values.  A result with *)
(* ok = FALSE is a TypeError, KeyError or IndexError.                      *)

IsSubstring(w, s) == \E i \in 1..(Len(s) - Len(w) + 1) : SubSeq(s, i, i + Len(w) - 1) = w

\* key in v
PyIn(key, v) ==
  CASE v.t = "obj" -> [ok |-> TRUE, in |-> JHas(v, key)]
    [] v.t = "arr" -> [ok |-> TRUE, in |-> \E i \in 1..Len(v.items) : v.items[i] = JStr(key)]
    [] v.t = "str" -> [ok |-> TRUE, in |-> IsSubstring(key, v.s)]
    [] OTHER -> [ok |-> FALSE, in |-> FALSE]

\* v[key] for a string key
PyItem(v, key) ==
  IF v.t = "obj" /\ JHas(v, key) THEN [ok |-> TRUE, val |-> JGet(v, key)]
  ELSE [ok |-> FALSE, val |-> JNull]

\* v[0]
PyFirst(v) ==
  CASE v.t = "arr" /\ v.items # <<>> -> [ok |-> TRUE, val |-> v.items[1]]
    [] v.t = "str" /\ v.s # <<>> -> [ok |-> TRUE, val |-> JStr(<<v.s[1]>>)]
    [] OTHER -> [ok |-> FALSE, val |-> JNull]

\* bool(v)
PyTruthy(v) ==
  CASE v.t = "str" -> v.s # <<>>
    [] v.t = "num" -> v.n # 0
    [] v.t = "bool" -> v.b
    [] v.t = "null" -> FALSE
    [] v.t = "arr" -> v.items # <<>>
    [] v.t = "obj" -> v.kv # <<>>

\* json.loads(content[2:].decode('utf-16le'))
LoadJsonMember(content) ==
  LET Loads(decoded) ==
        IF decoded.ok THEN JsonLoads(decoded.text) ELSE [ok |-> FALSE, val |-> JNull]
  IN Loads(DecodeUtf16le(SubSeq(content, 3, Len(content))))

-----------------------------------------------------------------------------
(* _validate_pbit_structure (Abc.py:494-551): TRUE when it returns, FALSE  *)
(* when it raises.                                                         *)

ValidatePbitStructure(dir) ==
  LET \* json_content = json.loads(...); if key not in json_content: raise
      HasSection(json_content, key) ==
        json_content.ok /\ PyIn(key, json_content.val).ok /\ PyIn(key, json_content.val).in
  IN /\ \A file_name \in {"DataModelSchema", "Version", "Settings", "Metadata"} :
          file_name \in DOMAIN dir.files /\ Len(dir.files[file_name]) # 0
     /\ "Report" \in dir.dirs
     /\ "Report/Layout" \in DOMAIN dir.files
     /\ HasSection(LoadJsonMember(dir.files["DataModelSchema"]), <<"m","o","d","e","l">>)
     /\ HasSection(LoadJsonMember(dir.files["Report/Layout"]), <<"p","a","g","e","s">>)

-----------------------------------------------------------------------------
(* test_pbit_compatibility (Abc.py:736-830).  An archive is the sequence   *)
(* of its members [name, data]; any exception makes the result False.      *)

\* zip_file.read(name): the last member of that name
ZipRead(members, name) ==
  members[CHOOSE i \in 1..Len(members) :
            /\ members[i].name = name
            /\ \A j \in (i + 1)..Len(members) : members[j].name # name].data

\* Mutation of EncodingValid: the Version member only has to decode.
EncodingValidAnyVersion(members, file_name) ==
  LET VersionValid(version) == version.ok
      JsonValid(content) ==
        /\ ~(Len(content) < 3 \/ SubSeq(content, 1, 2) # BOM)
        /\ LoadJsonMember(content).ok
  IN IF file_name = "Version"
       THEN VersionValid(DecodeUtf8(ZipRead(members, file_name)))
       ELSE JsonValid(ZipRead(members, file_name))

\* Test 3 for one name of the file list (Abc.py:755-776)
EncodingValid(members, file_name) ==
  LET VersionValid(version) == version.ok /\ Strip(version.text) # <<>>
      JsonValid(content) ==
        /\ ~(Len(content) < 3 \/ SubSeq(content, 1, 2) # BOM)
        /\ LoadJsonMember(content).ok
  IN IF file_name = "Version"
       THEN VersionValid(DecodeUtf8(ZipRead(members, file_name)))
       ELSE JsonValid(ZipRead(members, file_name))

\* Test 4 (Abc.py:778-802)
SchemaValid(members) ==
  LET Checks(schema) ==
        LET model == PyItem(schema, <<"m","o","d","e","l">>)
            has_tables == PyIn(<<"t","a","b","l","e","s">>, model.val)
            tables == PyItem(model.val, <<"t","a","b","l","e","s">>)
            table == PyFirst(tables.val)
            has_columns == PyIn(<<"c","o","l","u","m","n","s">>, table.val)
            columns == PyItem(table.val, <<"c","o","l","u","m","n","s">>)
        IN /\ \A field \in {<<"v","e","r","s","i","o","n">>, <<"n","a","m","e">>, <<"m","o","d","e","l">>} :
                PyIn(field, schema).ok /\ PyIn(field, schema).in
           /\ model.ok /\ has_tables.ok /\ has_tables.in
           /\ tables.ok /\ PyTruthy(tables.val)
           /\ table.ok /\ has_columns.ok /\ has_columns.in
           /\ columns.ok /\ PyTruthy(columns.val)
  IN Checks(LoadJsonMember(ZipRead(members, "DataModelSchema")).val)

\* Test 5 (Abc.py:804-823): only the first page is looked at
LayoutValid(members) ==
  LET Checks(layout) ==
        LET has_pages == PyIn(<<"p","a","g","e","s">>, layout)
            pages == PyItem(layout, <<"p","a","g","e","s">>)
            page == PyFirst(pages.val)
        IN /\ has_pages.ok /\ has_pages.in
           /\ pages.ok /\ PyTruthy(pages.val)
           /\ page.ok
           /\ \A field \in {<<"i","d">>, <<"w","i","d","t","h">>, <<"h","e","i","g","h","t">>} :
                PyIn(field, page.val).ok /\ PyIn(field, page.val).in
  IN Checks(LoadJsonMember(ZipRead(members, "Report/Layout")).val)

TestPbitCompatibility(archive) ==
  /\ archive.state = "file"
  /\ \A req_file \in {"DataModelSchema", "Version", "Settings", "Metadata", "Report/Layout"} :
        \E i \in 1..Len(archive.members) : archive.members[i].name = req_file
  /\ \A i \in 1..Len(archive.members) : EncodingValid(archive.members, archive.members[i].name)
  /\ SchemaValid(archive.members)
  /\ LayoutValid(archive.members)

-----------------------------------------------------------------------------
(* The state a run starts in.                                              *)

TempAbsent == [state |-> "absent", dirs |-> {}, files |-> NoFiles, times |-> NoFiles]

\* something that is not a directory holds the staging path
TempIsFile == [state |-> "file", dirs |-> {}, files |-> NoFiles, times |-> NoFiles]

\* the staging directory is there already and holds a file of somebody
\* else's (os.makedirs(temp_dir, exist_ok=True) accepts that)
TempStale ==
  [state |-> "dir", dirs |-> {},
   files |-> [p \in {"notes.txt"} |-> EncodeUtf8(<<"d","r","a","f","t">>)],
   times |-> [p \in {"notes.txt"} |-> 0]]

PbitAbsent == [state |-> "absent", members |-> <<>>, complete |-> FALSE, run |-> FALSE]

\* an archive of an earlier conversion is at the output path
PbitOld ==
  [state |-> "file",
   members |-> <<[name |-> "Version", data |-> EncodeUtf8(<<"3",".","0">>), date_time |-> 0]>>,
   complete |-> TRUE, run |-> FALSE]

\* a directory holds the output path
PbitIsDir == [state |-> "dir", members |-> <<>>, complete |-> FALSE, run |-> FALSE]

\* Scenario A of the specification, with a datasource name
WorkbookSales ==
  [wellformed |-> TRUE,
   datasources |->
     <<[attrs |-> [keys |-> {"name"}, val |-> [name |-> <<"O","r","d","e","r","s">>]],
        connection |-> <<ConnectionElem(<<"p","o","s","t","g","r","e","s","q","l">>, {"schema"}, <<"s","a","l","e","s">>)>>,
        columns |-> <<ColumnElem(<<"[","R","e","g","i","o","n","]">>, <<"s","t","r","i","n","g">>), ColumnElem(<<"[","A","m","o","u","n","t","]">>, <<"r","e","a","l">>)>>]>>,
   worksheets |-> <<WorksheetBar>>,
   dashboards |-> 0]

\* no datasource and no worksheet
WorkbookEmpty ==
  [wellformed |-> TRUE, datasources |-> <<>>, worksheets |-> <<>>, dashboards |-> 1]

\* names beyond ASCII and with characters JSON escapes
WorkbookEuro ==
  [wellformed |-> TRUE,
   datasources |->
     <<[attrs |-> [keys |-> {"name"}, val |-> [name |-> <<"P", "r", "i", "x", " ", "U+20AC">>]],
        connection |-> <<>>,
        columns |-> <<ColumnElem(<<"[", "C", "a", "f", "U+00E9", "]">>, <<"s","t","r","i","n","g">>),
                      ColumnElem(<<"a","\"","b","\\","c">>, <<"B","o","o","l","e","a","n">>)>>]>>,
   worksheets |-> <<WorksheetLine>>,
   dashboards |-> 0]

NotXml == [wellformed |-> FALSE, datasources |-> <<>>, worksheets |-> <<>>, dashboards |-> 0]

\* the input file of a run: a missing path, a .twb document, or a .twbx
\* archive with or without a .twb inside
Inputs ==
  {[kind |-> "missing", has_twb |-> FALSE, xml |-> NotXml],
   [kind |-> "twbx", has_twb |-> FALSE, xml |-> NotXml],
   [kind |-> "twbx", has_twb |-> TRUE, xml |-> WorkbookSales]}
    \cup [kind : {"twb"}, has_twb : {FALSE},
          xml : {NotXml, WorkbookSales, WorkbookEmpty, WorkbookEuro}]

\* the converter has made no call before
NoPrior == [kind |-> "none", has_twb |-> FALSE, xml |-> NotXml]

Init ==
  /\ pc = "start"
  /\ input \in Inputs
  /\ tableau_data = NoData
  /\ template_structure = NoStructure
  /\ temp_dir \in {TempAbsent, TempIsFile, TempStale}
  /\ walk = {}
  /\ pbit \in {PbitAbsent, PbitOld, PbitIsDir}
  /\ created = "pending"
  /\ compat = FALSE
  /\ result = "pending"
  /\ exit_code = -1
  /\ prior = NoPrior
  /\ clock = 0
  /\ earlier = PbitAbsent
  /\ disk = <<>>
  /\ runs = <<>>

\* a second call of convert_file on a converter whose first call, for the
\* input prior, has returned.  The converter keeps self.tableau_data, which
\* convert_file assigns at Abc.py:907 only (a call that returns before
\* leaves the {} of __init__).  The output directory keeps what the first
\* call left in it: among others the staging directory with the five files,
\* when create_pbit_file failed after the writes (Abc.py:730-734).
InitReuse ==
  /\ pc = "start"
  /\ input \in Inputs
  /\ prior \in {a \in Inputs : a.kind = "twb"}
  /\ tableau_data = ParseTableauWorkbook(prior.xml)
  /\ temp_dir \in
       {TempAbsent, TempIsFile, TempStale}
         \cup (IF tableau_data.keys = {} THEN {}
               ELSE {[state |-> "dir", dirs |-> {"Report"},
                      files |-> [p \in {StagingWrites[k] : k \in 1..5} |->
                                   StagedBytes(GenerateMinimalPbitStructure(tableau_data), p)],
                      times |-> [p \in {StagingWrites[k] : k \in 1..5} |-> 0]]})
  /\ template_structure = NoStructure
  /\ walk = {}
  /\ pbit \in {PbitAbsent, PbitOld, PbitIsDir}
  /\ created = "pending"
  /\ compat = FALSE
  /\ result = "pending"
  /\ exit_code = -1
  /\ clock = 0
  /\ earlier = PbitAbsent
  /\ disk = <<>>
  /\ runs = <<>>

\* the model build alone, on every workbook of BuildWorkbooks
InitBuild ==
  /\ pc = "parse"
  /\ input \in [kind : {"twb"}, has_twb : {FALSE}, xml : BuildWorkbooks]
  /\ tableau_data = NoData
  /\ template_structure = NoStructure
  /\ temp_dir = TempAbsent
  /\ walk = {}
  /\ pbit = PbitAbsent
  /\ created = "pending"
  /\ compat = FALSE
  /\ result = "pending"
  /\ exit_code = -1
  /\ prior = NoPrior
  /\ clock = 0
  /\ earlier = PbitAbsent
  /\ disk = <<>>
  /\ runs = <<>>

-----------------------------------------------------------------------------
(* convert_file (Abc.py:882-941).                                          *)

\* return False
ReturnFalse ==
  /\ result' = "False"
  /\ pc' = "returned"

\* Abc.py:885-903
CheckInput ==
  /\ pc = "start"
  /\ \/ /\ input.kind = "missing"
        /\ ReturnFalse
     \/ /\ input.kind = "twbx"
        /\ pc' = "extract"
        /\ UNCHANGED result
     \/ /\ input.kind = "twb"
        /\ pc' = "parse"
        /\ UNCHANGED result
  /\ UNCHANGED <<input, tableau_data, template_structure, temp_dir, walk, pbit,
                 created, compat, exit_code>>
  /\ UNCHANGED aux

\* extract_twbx (Abc.py:23-41) and Abc.py:899-901
ExtractTwbx ==
  /\ pc = "extract"
  /\ IF input.has_twb
       THEN pc' = "parse" /\ UNCHANGED result
       ELSE ReturnFalse
  /\ UNCHANGED <<input, tableau_data, template_structure, temp_dir, walk, pbit,
                 created, compat, exit_code>>
  /\ UNCHANGED aux

\* Mutation of ParseWorkbook: the check of the parse result (Abc.py:909-911)
\* is missing.
ParseWorkbookNoCheck ==
  /\ pc = "parse"
  /\ tableau_data' = ParseTableauWorkbook(input.xml)
  /\ pc' = "generate"
  /\ UNCHANGED <<input, template_structure, temp_dir, walk, pbit, created, compat, result,
                 exit_code>>
  /\ UNCHANGED aux

\* Mutation of ParseWorkbook: a failed parse leaves self.tableau_data as it
\* was.
ParseWorkbookKeepStale ==
  /\ pc = "parse"
  /\ tableau_data' = IF ParseTableauWorkbook(input.xml).keys = {}
                       THEN tableau_data
                       ELSE ParseTableauWorkbook(input.xml)
  /\ IF tableau_data'.keys = {}
       THEN ReturnFalse
       ELSE pc' = "generate" /\ UNCHANGED result
  /\ UNCHANGED <<input, template_structure, temp_dir, walk, pbit, created, compat, exit_code>>
  /\ UNCHANGED aux

\* Abc.py:905-914
ParseWorkbook ==
  /\ pc = "parse"
  /\ tableau_data' = ParseTableauWorkbook(input.xml)
  /\ IF tableau_data'.keys = {}
       THEN ReturnFalse
       ELSE pc' = "generate" /\ UNCHANGED result
  /\ UNCHANGED <<input, template_structure, temp_dir, walk, pbit, created, compat, exit_code>>
  /\ UNCHANGED aux

\* Abc.py:916-918
Generate ==
  /\ pc = "generate"
  /\ template_structure' = GenerateMinimalPbitStructure(tableau_data)
  /\ pc' = "create"
  /\ UNCHANGED <<input, tableau_data, temp_dir, walk, pbit, created, compat, result, exit_code>>
  /\ UNCHANGED aux

-----------------------------------------------------------------------------
(* create_pbit_file (Abc.py:647-734), one action per file operation.  Each *)
(* operation may raise OSError; every exception ends in the handler at     *)
(* Abc.py:730-734, which returns None.                                     *)

\* except Exception: ... return None
RaiseInCreate ==
  /\ created' = "none"
  /\ pc' = "create_returned"

\* os.makedirs(temp_dir, exist_ok=True) (Abc.py:653-654)
MakeTempDir ==
  /\ pc = "create"
  /\ \/ /\ temp_dir.state # "file"
        /\ temp_dir' = [temp_dir EXCEPT !.state = "dir"]
        /\ pc' = "write_1"
        /\ UNCHANGED created
     \/ /\ RaiseInCreate
        /\ UNCHANGED temp_dir
  /\ UNCHANGED <<input, tableau_data, template_structure, walk, pbit, compat, result, exit_code>>
  /\ UNCHANGED aux

\* the k-th write of Abc.py:658-700; the Layout is preceded by
\* os.makedirs(report_dir, exist_ok=True)
WriteStagingFile(k) ==
  /\ pc = <<"write_1", "write_2", "write_3", "write_4", "write_5">>[k]
  /\ \/ /\ temp_dir' =
             [temp_dir EXCEPT
                !.dirs = IF StagingWrites[k] \in InReport THEN @ \cup {"Report"} ELSE @,
                !.files = WriteFile(@, StagingWrites[k],
                                    StagedBytes(template_structure, StagingWrites[k])),
                !.times = WriteFile(@, StagingWrites[k], clock)]
        /\ pc' = <<"write_2", "write_3", "write_4", "write_5", "validate">>[k]
        /\ UNCHANGED created
     \/ \* the file is opened and the write fails
        /\ temp_dir' =
             [temp_dir EXCEPT
                !.dirs = IF StagingWrites[k] \in InReport THEN @ \cup {"Report"} ELSE @,
                !.files = WriteFile(@, StagingWrites[k], <<>>),
                !.times = WriteFile(@, StagingWrites[k], clock)]
        /\ RaiseInCreate
  /\ UNCHANGED <<input, tableau_data, template_structure, walk, pbit, compat, result, exit_code>>
  /\ UNCHANGED aux

\* self._validate_pbit_structure(temp_dir) (Abc.py:702-704)
ValidateStaging ==
  /\ pc = "validate"
  /\ IF ValidatePbitStructure(temp_dir)
       THEN pc' = "zip_open" /\ UNCHANGED created
       ELSE RaiseInCreate
  /\ UNCHANGED <<input, tableau_data, template_structure, temp_dir, walk, pbit, compat,
                 result, exit_code>>
  /\ UNCHANGED aux

\* zipfile.ZipFile(pbit_path, 'w', ...) and the listing of os.walk
\* (Abc.py:708-709): the output file is created or truncated
OpenArchive ==
  /\ pc = "zip_open"
  /\ \/ /\ pbit.state # "dir"
        /\ pbit' = [state |-> "file", members |-> <<>>, complete |-> FALSE, run |-> TRUE]
        /\ walk' = DOMAIN temp_dir.files
        /\ pc' = "zip_add"
        /\ UNCHANGED created
     \/ /\ RaiseInCreate
        /\ UNCHANGED <<pbit, walk>>
  /\ UNCHANGED <<input, tableau_data, template_structure, temp_dir, compat, result, exit_code>>
  /\ UNCHANGED aux

\* zip_file.write(file_path, arc_name) for the next file of the walk
\* (Abc.py:709-714); the entry takes its date and time from the
\* modification time of the staged file.  os.walk yields the files of the staging directory
\* itself before those of Report, each directory in the arbitrary order of
\* its listing.  On an error the with statement closes the archive.
AddMember ==
  /\ pc = "zip_add"
  /\ \E path \in walk :
        /\ path \in InReport => walk \subseteq InReport
        /\ \/ /\ pbit' = [pbit EXCEPT
                            !.members = Append(@, [name |-> path, data |-> temp_dir.files[path],
                                                   date_time |-> temp_dir.times[path]])]
              /\ walk' = walk \ {path}
              /\ UNCHANGED <<pc, created>>
           \/ /\ RaiseInCreate
              /\ UNCHANGED <<pbit, walk>>
  /\ UNCHANGED <<input, tableau_data, template_structure, temp_dir, compat, result, exit_code>>
  /\ UNCHANGED aux

\* the end of the with statement (Abc.py:708-714)
CloseArchive ==
  /\ pc = "zip_add"
  /\ walk = {}
  /\ pbit' = [pbit EXCEPT !.complete = TRUE]
  /\ pc' = "cleanup"
  /\ UNCHANGED <<input, tableau_data, template_structure, temp_dir, walk, created, compat,
                 result, exit_code>>
  /\ UNCHANGED aux

\* shutil.rmtree(temp_dir), os.path.getsize(pbit_path), return pbit_path
\* (Abc.py:716-728)
Cleanup ==
  /\ pc = "cleanup"
  /\ \/ /\ temp_dir' = TempAbsent
        /\ created' = "path"
        /\ pc' = "create_returned"
     \/ /\ RaiseInCreate
        /\ UNCHANGED temp_dir
  /\ UNCHANGED <<input, tableau_data, template_structure, walk, pbit, compat, result, exit_code>>
  /\ UNCHANGED aux

\* Mutation of ConvertReturn: convert_file returns what the compatibility
\* test returned.
ConvertReturnStrict ==
  /\ pc = "create_returned"
  /\ IF created = "path"
       THEN /\ compat' = TestPbitCompatibility(pbit)
            /\ result' = IF compat' THEN "True" ELSE "False"
       ELSE /\ result' = "False"
            /\ UNCHANGED compat
  /\ pc' = "returned"
  /\ UNCHANGED <<input, tableau_data, template_structure, temp_dir, walk, pbit, created,
                 exit_code>>
  /\ UNCHANGED aux

\* what convert_file does with the value of create_pbit_file (Abc.py:924-935)
ConvertReturn ==
  /\ pc = "create_returned"
  /\ IF created = "path"
       THEN /\ compat' = TestPbitCompatibility(pbit)
            /\ result' = "True"
       ELSE /\ result' = "False"
            /\ UNCHANGED compat
  /\ pc' = "returned"
  /\ UNCHANGED <<input, tableau_data, template_structure, temp_dir, walk, pbit, created,
                 exit_code>>
  /\ UNCHANGED aux

\* main (Abc.py:1022-1032)
Main ==
  /\ pc = "returned"
  /\ exit_code' = IF result = "True" THEN 0 ELSE 1
  /\ pc' = "exited"
  /\ UNCHANGED <<input, tableau_data, template_structure, temp_dir, walk, pbit, created,
                 compat, result>>
  /\ UNCHANGED aux

Next ==
  \/ CheckInput
  \/ ExtractTwbx
  \/ ParseWorkbook
  \/ Generate
  \/ MakeTempDir
  \/ \E k \in 1..5 : WriteStagingFile(k)
  \/ ValidateStaging
  \/ OpenArchive
  \/ AddMember
  \/ CloseArchive
  \/ Cleanup
  \/ ConvertReturn
  \/ Main

Spec == Init /\ [][Next]_vars

\* convert_file called again on a converter that has converted before
SpecReuse == InitReuse /\ [][Next]_vars

NextBuild == ParseWorkbook \/ Generate

SpecBuild == InitBuild /\ [][NextBuild]_vars

-----------------------------------------------------------------------------
(* create_pbit_file called twice with the same arguments.                  *)

\* MaxClock bounds the time that passes
MaxClock == 1

\* two seconds pass
Tick ==
  /\ clock < MaxClock
  /\ clock' = clock + 1
  /\ UNCHANGED <<solo, prior, earlier, disk, runs>>

\* the caller keeps the archive and calls create_pbit_file again with the
\* same template_structure, output_path and base_name (Abc.py:647-650)
SerializeAgain ==
  /\ pc = "create_returned"
  /\ created = "path"
  /\ earlier = PbitAbsent
  /\ earlier' = pbit
  /\ pbit' = [pbit EXCEPT !.run = FALSE]
  /\ created' = "pending"
  /\ pc' = "create"
  /\ UNCHANGED <<input, tableau_data, template_structure, temp_dir, walk, compat, result,
                 exit_code, prior, clock, disk, runs>>

\* convert_file has generated the structure and is about to call
\* create_pbit_file (Abc.py:920-922)
InitTwice ==
  /\ pc = "create"
  /\ input \in [kind : {"twb"}, has_twb : {FALSE}, xml : {WorkbookSales, WorkbookEmpty}]
  /\ tableau_data = ParseTableauWorkbook(input.xml)
  /\ template_structure = GenerateMinimalPbitStructure(tableau_data)
  /\ temp_dir = TempAbsent
  /\ walk = {}
  /\ pbit = PbitAbsent
  /\ created = "pending"
  /\ compat = FALSE
  /\ result = "pending"
  /\ exit_code = -1
  /\ prior = NoPrior
  /\ clock = 0
  /\ earlier = PbitAbsent
  /\ disk = <<>>
  /\ runs = <<>>

NextTwice ==
  \/ MakeTempDir
  \/ \E k \in 1..5 : WriteStagingFile(k)
  \/ ValidateStaging
  \/ OpenArchive
  \/ AddMember
  \/ CloseArchive
  \/ Cleanup
  \/ SerializeAgain
  \/ Tick

SpecTwice == InitTwice /\ [][NextTwice]_vars

-----------------------------------------------------------------------------
(* Two calls of create_pbit_file at once (Abc.py:647-734), each on its own *)
(* converter, on one file system.  A path is the sequence of its           *)
(* components.  disk maps every path that exists to its node: a directory  *)
(* [kind |-> "dir"], a staged file [kind |-> "file", data, time], or an    *)
(* archive [kind |-> "zip", members, complete], members being the set of   *)
(* its entries (the order of the entries, which is the order of the        *)
(* listings, is left out here).  runs[r] holds the arguments and the       *)
(* locals of call r: output_path, base_name, pc, what os.walk has listed   *)
(* and has still to list, and the value returned.                          *)

\* pbit_path (Abc.py:650)
PbitPath(r) == Append(runs[r].output_path, runs[r].base_name \o ".pbit")

\* temp_dir (Abc.py:653)
TempDir(r) == Append(runs[r].output_path, runs[r].base_name \o "_temp")

RECURSIVE ArcName(_)
\* os.path.relpath(file_path, temp_dir) of the path with these components
\* below temp_dir (Abc.py:712)
ArcName(rel) ==
  IF Len(rel) = 1 THEN rel[1] ELSE rel[1] \o "/" \o ArcName(Tail(rel))

\* one step of os.walk (Abc.py:709): the files of directory d, and its
\* subdirectories in the order of the listing, which is arbitrary; a
\* directory that cannot be listed yields nothing
ListDir(d) ==
  LET children == {p \in DOMAIN disk : Len(p) = Len(d) + 1 /\ SubSeq(p, 1, Len(d)) = d}
      dirs == {p \in children : disk[p].kind = "dir"}
      listable == d \in DOMAIN disk /\ disk[d].kind = "dir"
  IN [files |-> IF listable THEN children \ dirs ELSE {},
      orders |-> IF listable
                   THEN {o \in [1..Cardinality(dirs) -> dirs] :
                           \A i, j \in 1..Cardinality(dirs) : i # j => o[i] # o[j]}
                   ELSE {<<>>}]

\* os.makedirs(temp_dir, exist_ok=True) (Abc.py:653-654): the missing
\* directories of the path are created; a file on the path raises
PairMakeTempDir(r) ==
  LET path == {SubSeq(TempDir(r), 1, n) : n \in 1..Len(TempDir(r))}
  IN /\ runs[r].pc = "create"
     /\ IF \A p \in path : p \in DOMAIN disk => disk[p].kind = "dir"
          THEN /\ disk' = [p \in DOMAIN disk \cup path |->
                             IF p \in path THEN [kind |-> "dir"] ELSE disk[p]]
               /\ runs' = [runs EXCEPT ![r].pc = "write_1"]
          ELSE /\ runs' = [runs EXCEPT ![r].pc = "returned", ![r].created = "none"]
               /\ UNCHANGED disk
     /\ UNCHANGED <<solo, prior, clock, earlier>>

\* the k-th write of Abc.py:658-700 by call r, of the structure built for
\* its workbook; the Layout is preceded by os.makedirs(report_dir,
\* exist_ok=True).  open raises when the directory of the file is missing.
PairWriteStagingFile(r, k) ==
  LET name == StagingWrites[k]
      structure ==
        GenerateMinimalPbitStructure(
          ParseTableauWorkbook(IF r = 1 THEN WorkbookSales ELSE WorkbookEmpty))
      report_dir == {SubSeq(TempDir(r), 1, n) : n \in 1..Len(TempDir(r))}
                      \cup {Append(TempDir(r), "Report")}
      made == IF name \in InReport /\ \A p \in report_dir : p \in DOMAIN disk => disk[p].kind = "dir"
                THEN [p \in DOMAIN disk \cup report_dir |->
                        IF p \in report_dir THEN [kind |-> "dir"] ELSE disk[p]]
                ELSE disk
      file_path == IF name \in InReport THEN TempDir(r) \o <<"Report", "Layout">>
                   ELSE Append(TempDir(r), name)
      parent == SubSeq(file_path, 1, Len(file_path) - 1)
  IN /\ runs[r].pc = <<"write_1", "write_2", "write_3", "write_4", "write_5">>[k]
     /\ IF /\ parent \in DOMAIN made /\ made[parent].kind = "dir"
           /\ file_path \in DOMAIN made => made[file_path].kind # "dir"
          THEN /\ disk' = [p \in DOMAIN made \cup {file_path} |->
                             IF p = file_path
                               THEN [kind |-> "file", data |-> StagedBytes(structure, name),
                                     time |-> clock]
                               ELSE made[p]]
               /\ runs' = [runs EXCEPT
                             ![r].pc = <<"write_2", "write_3", "write_4", "write_5", "validate">>[k]]
          ELSE /\ disk' = made
               /\ runs' = [runs EXCEPT ![r].pc = "returned", ![r].created = "none"]
     /\ UNCHANGED <<solo, prior, clock, earlier>>

\* self._validate_pbit_structure(temp_dir) (Abc.py:702-704) on what call r
\* finds in its staging directory
PairValidateStaging(r) ==
  LET Staged(name) == IF name \in InReport THEN TempDir(r) \o <<"Report", "Layout">>
                      ELSE Append(TempDir(r), name)
      found == {StagingWrites[k] : k \in 1..5}
      dir == [state |-> "dir",
              dirs |-> IF Append(TempDir(r), "Report") \in DOMAIN disk THEN {"Report"} ELSE {},
              files |-> [name \in {n \in found : /\ Staged(n) \in DOMAIN disk
                                                  /\ disk[Staged(n)].kind = "file"} |->
                           disk[Staged(name)].data]]
  IN /\ runs[r].pc = "validate"
     /\ runs' = IF ValidatePbitStructure(dir)
                  THEN [runs EXCEPT ![r].pc = "zip_open"]
                  ELSE [runs EXCEPT ![r].pc = "returned", ![r].created = "none"]
     /\ UNCHANGED <<solo, prior, clock, earlier, disk>>

\* zipfile.ZipFile(pbit_path, 'w', ...) and the first step of os.walk
\* (Abc.py:708-709)
PairOpenArchive(r) ==
  LET parent == runs[r].output_path
  IN /\ runs[r].pc = "zip_open"
     /\ IF /\ parent \in DOMAIN disk /\ disk[parent].kind = "dir"
           /\ PbitPath(r) \in DOMAIN disk => disk[PbitPath(r)].kind # "dir"
          THEN /\ disk' = [p \in DOMAIN disk \cup {PbitPath(r)} |->
                             IF p = PbitPath(r)
                               THEN [kind |-> "zip", members |-> {}, complete |-> FALSE]
                               ELSE disk[p]]
               /\ \E order \in ListDir(TempDir(r)).orders :
                     runs' = [runs EXCEPT ![r].pc = "zip_add",
                                          ![r].listed = ListDir(TempDir(r)).files,
                                          ![r].pending = order]
          ELSE /\ runs' = [runs EXCEPT ![r].pc = "returned", ![r].created = "none"]
               /\ UNCHANGED disk
     /\ UNCHANGED <<solo, prior, clock, earlier>>

\* zip_file.write(file_path, arc_name) for the next file of the directory
\* listed (Abc.py:710-714), in the arbitrary order of the listing.  The
\* file is read as it is now; a file that is gone raises.  The entries go
\* to the open archive, which is on the disk only as long as nobody has
\* removed it.  The bytes of an archive that is read as a file are its
\* signature and the number of its entries.
PairAddMember(r) ==
  /\ runs[r].pc = "zip_add"
  /\ \E file_path \in runs[r].listed :
        IF file_path \in DOMAIN disk /\ disk[file_path].kind # "dir"
          THEN LET node == disk[file_path]
                   entry ==
                     [name |-> ArcName(SubSeq(file_path, Len(TempDir(r)) + 1, Len(file_path))),
                      data |-> IF node.kind = "file" THEN node.data
                               ELSE <<80, 75, Cardinality(node.members)>>,
                      date_time |-> IF node.kind = "file" THEN node.time ELSE clock]
               IN /\ disk' = IF PbitPath(r) \in DOMAIN disk
                               THEN [disk EXCEPT ![PbitPath(r)].members = @ \cup {entry}]
                               ELSE disk
                  /\ runs' = [runs EXCEPT ![r].listed = @ \ {file_path}]
          ELSE /\ runs' = [runs EXCEPT ![r].pc = "returned", ![r].created = "none"]
               /\ UNCHANGED disk
  /\ UNCHANGED <<solo, prior, clock, earlier>>

\* the next step of os.walk (Abc.py:709): the next directory is listed,
\* its subdirectories come before the directories still to visit
PairWalkInto(r) ==
  /\ runs[r].pc = "zip_add"
  /\ runs[r].listed = {}
  /\ runs[r].pending # <<>>
  /\ \E order \in ListDir(Head(runs[r].pending)).orders :
        runs' = [runs EXCEPT ![r].listed = ListDir(Head(runs[r].pending)).files,
                             ![r].pending = order \o Tail(@)]
  /\ UNCHANGED <<solo, prior, clock, earlier, disk>>

\* the end of the with statement (Abc.py:708-714)
PairCloseArchive(r) ==
  /\ runs[r].pc = "zip_add"
  /\ runs[r].listed = {}
  /\ runs[r].pending = <<>>
  /\ disk' = IF PbitPath(r) \in DOMAIN disk
               THEN [disk EXCEPT ![PbitPath(r)].complete = TRUE]
               ELSE disk
  /\ runs' = [runs EXCEPT ![r].pc = "cleanup"]
  /\ UNCHANGED <<solo, prior, clock, earlier>>

\* shutil.rmtree(temp_dir), os.path.getsize(pbit_path), return pbit_path
\* (Abc.py:716-728): the directory goes with all that is below it; a
\* staging directory or an archive that is gone raises
PairCleanup(r) ==
  LET kept == {p \in DOMAIN disk :
                 ~(Len(p) >= Len(TempDir(r)) /\ SubSeq(p, 1, Len(TempDir(r))) = TempDir(r))}
  IN /\ runs[r].pc = "cleanup"
     /\ IF TempDir(r) \in DOMAIN disk
          THEN /\ disk' = [p \in kept |-> disk[p]]
               /\ runs' = [runs EXCEPT ![r].pc = "returned",
                                       ![r].created = IF PbitPath(r) \in kept THEN "path"
                                                      ELSE "none"]
          ELSE /\ runs' = [runs EXCEPT ![r].pc = "returned", ![r].created = "none"]
               /\ UNCHANGED disk
     /\ UNCHANGED <<solo, prior, clock, earlier>>

\* output_path and base_name of the two calls differ: one directory and two
\* names, two directories and one name, and an output directory that is the
\* staging directory of the other call.  The output directories exist.
InitPair ==
  /\ pc = "start"
  /\ input = NoPrior
  /\ tableau_data = NoData
  /\ template_structure = NoStructure
  /\ temp_dir = TempAbsent
  /\ walk = {}
  /\ pbit = PbitAbsent
  /\ created = "pending"
  /\ compat = FALSE
  /\ result = "pending"
  /\ exit_code = -1
  /\ prior = NoPrior
  /\ clock = 0
  /\ earlier = PbitAbsent
  /\ \E second \in {[output_path |-> <<"out">>, base_name |-> "b"],
                    [output_path |-> <<"alt">>, base_name |-> "a"],
                    [output_path |-> <<"out", "a_temp">>, base_name |-> "b"]} :
        /\ runs = [r \in {1, 2} |->
                     [output_path |-> IF r = 1 THEN <<"out">> ELSE second.output_path,
                      base_name |-> IF r = 1 THEN "a" ELSE second.base_name,
                      pc |-> "create", listed |-> {}, pending |-> <<>>,
                      created |-> "pending"]]
        /\ disk = [p \in {<<"out">>}
                          \cup {SubSeq(second.output_path, 1, n) :
                                  n \in 1..Len(second.output_path)} |-> [kind |-> "dir"]]

NextPair ==
  \E r \in {1, 2} :
     \/ PairMakeTempDir(r)
     \/ \E k \in 1..5 : PairWriteStagingFile(r, k)
     \/ PairValidateStaging(r)
     \/ PairOpenArchive(r)
     \/ PairAddMember(r)
     \/ PairWalkInto(r)
     \/ PairCloseArchive(r)
     \/ PairCleanup(r)

SpecPair == InitPair /\ [][NextPair]_vars


-----------------------------------------------------------------------------
(* test_pbit_compatibility (Abc.py:736-830) on its own: the method takes   *)
(* the path of any file, so the archive it tests is any archive, not only  *)
(* one create_pbit_file wrote.                                             *)

\* what an archive under test may hold for each of the five members: the
\* member is missing, or it has the data.  The documents are small ones
\* with and without the keys the test looks for; the data is encoded as the
\* test expects, without the byte order mark, with the marks in the wrong
\* order, or is no JSON text.
MemberPool ==
  LET Has(data) == [present |-> TRUE, data |-> data]
      Json(text) == Has(BOM \o EncodeUtf16le(text))
      Missing == [present |-> FALSE, data |-> <<>>]
  IN [DataModelSchema |->
        { Json(<<"{","\"","v","e","r","s","i","o","n","\"",":","\"","1",".","0","\"",",","\"","n","a","m","e","\"",":","\"","m","\"",",","\"","m","o","d","e","l","\"",":","{","\"","t","a","b","l","e","s","\"",":","[","{","\"","c","o","l","u","m","n","s","\"",":","[","1","]","}","]","}","}">>),
          Json(<<"{","\"","v","e","r","s","i","o","n","\"",":","\"","1",".","0","\"",",","\"","n","a","m","e","\"",":","\"","m","\"","}">>),
          Json(<<"{","\"","v","e","r","s","i","o","n","\"",":","\"","1",".","0","\"",",","\"","n","a","m","e","\"",":","\"","m","\"",",","\"","m","o","d","e","l","\"",":","{","}","}">>),
          Json(<<"{","\"","v","e","r","s","i","o","n","\"",":","\"","1",".","0","\"",",","\"","n","a","m","e","\"",":","\"","m","\"",",","\"","m","o","d","e","l","\"",":","{","\"","t","a","b","l","e","s","\"",":","[","]","}","}">>),
          Json(<<"5">>),
          Json(<<"{","\"","m","o","d","e","l","\"">>),
          Has(EncodeUtf16le(<<"{","\"","v","e","r","s","i","o","n","\"",":","\"","1",".","0","\"",",","\"","n","a","m","e","\"",":","\"","m","\"",",","\"","m","o","d","e","l","\"",":","{","\"","t","a","b","l","e","s","\"",":","[","{","\"","c","o","l","u","m","n","s","\"",":","[","1","]","}","]","}","}">>)),
          Has(<<254, 255>> \o EncodeUtf16le(<<"{","\"","v","e","r","s","i","o","n","\"",":","\"","1",".","0","\"",",","\"","n","a","m","e","\"",":","\"","m","\"",",","\"","m","o","d","e","l","\"",":","{","\"","t","a","b","l","e","s","\"",":","[","{","\"","c","o","l","u","m","n","s","\"",":","[","1","]","}","]","}","}">>)),
          Missing },
      Layout |->
        { Json(<<"{","\"","p","a","g","e","s","\"",":","[","{","\"","i","d","\"",":","\"","p","\"",",","\"","w","i","d","t","h","\"",":","1","2","8","0",",","\"","h","e","i","g","h","t","\"",":","7","2","0","}","]","}">>),
          Json(<<"{","\"","p","a","g","e","s","\"",":","[","{","\"","i","d","\"",":","\"","p","\"",",","\"","w","i","d","t","h","\"",":","1","2","8","0",",","\"","h","e","i","g","h","t","\"",":","7","2","0","}",",","{","\"","w","i","d","t","h","\"",":","1","2","8","0",",","\"","h","e","i","g","h","t","\"",":","7","2","0","}","]","}">>),
          Json(<<"{","\"","p","a","g","e","s","\"",":","[","{","\"","i","d","\"",":","\"","p","\"",",","\"","w","i","d","t","h","\"",":","1","2","8","0",",","\"","h","e","i","g","h","t","\"",":","7","2","0","}",",","{","\"","i","d","\"",":","\"","q","\"",",","\"","h","e","i","g","h","t","\"",":","7","2","0","}","]","}">>),
          Json(<<"{","\"","p","a","g","e","s","\"",":","[","{","\"","i","d","\"",":","\"","p","\"",",","\"","w","i","d","t","h","\"",":","1","2","8","0",",","\"","h","e","i","g","h","t","\"",":","7","2","0","}",",","{","\"","i","d","\"",":","\"","q","\"",",","\"","w","i","d","t","h","\"",":","1","2","8","0",",","\"","h","e","i","g","h","t","\"",":","7","2","0","}","]","}">>),
          Json(<<"{","\"","p","a","g","e","s","\"",":","[","{","\"","i","d","\"",":","\"","p","\"",",","\"","w","i","d","t","h","\"",":","1","2","8","0","}","]","}">>),
          Json(<<"{","\"","p","a","g","e","s","\"",":","[","{","\"","w","i","d","t","h","\"",":","1","2","8","0",",","\"","h","e","i","g","h","t","\"",":","7","2","0","}",",","{","\"","i","d","\"",":","\"","q","\"",",","\"","w","i","d","t","h","\"",":","1","2","8","0",",","\"","h","e","i","g","h","t","\"",":","7","2","0","}","]","}">>),
          Json(<<"{","\"","p","a","g","e","s","\"",":","[","]","}">>),
          Json(<<"{","\"","i","d","\"",":","\"","r","\"","}">>),
          Json(<<"[","\"","p","a","g","e","s","\"","]">>),
          Json(<<"{","\"","p","a","g","e","s","\"",":","[","{","\"","i","d","\"">>),
          Has(EncodeUtf16le(<<"{","\"","p","a","g","e","s","\"",":","[","{","\"","i","d","\"",":","\"","p","\"",",","\"","w","i","d","t","h","\"",":","1","2","8","0",",","\"","h","e","i","g","h","t","\"",":","7","2","0","}","]","}">>)),
          Missing },
      Version |->
        { Has(EncodeUtf8(<<"4",".","0">>)), Has(EncodeUtf8(<<" ","\n">>)), Has(<<>>), Has(<<255>>), Missing },
      Settings |->
        { Json(<<"{","\"","e","x","p","o","r","t","D","a","t","a","M","o","d","e","\"",":","1","}">>), Has(EncodeUtf16le(<<"{","\"","e","x","p","o","r","t","D","a","t","a","M","o","d","e","\"",":","1","}">>)),
          Json(<<"{","\"","e","x","p","o","r","t","D","a","t","a","M","o","d","e","\"">>), Missing },
      Metadata |->
        { Json(<<"{","\"","v","e","r","s","i","o","n","\"",":","\"","4",".","0","\"","}">>), Has(<<255, 254>>), Missing }]

\* the archives under test: every DataModelSchema with every Report/Layout
\* and two Versions beside sound other members, every Version, Settings and
\* Metadata beside a sound DataModelSchema and Report/Layout, and a path
\* that holds no file or a directory
TestArchives ==
  LET Archive(schema, layout, version, settings, metadata) ==
        LET all == <<[name |-> "DataModelSchema", m |-> schema],
                     [name |-> "Report/Layout", m |-> layout],
                     [name |-> "Version", m |-> version],
                     [name |-> "Settings", m |-> settings],
                     [name |-> "Metadata", m |-> metadata]>>
            kept == SelectSeq(all, LAMBDA e : e.m.present)
        IN [state |-> "file",
            members |-> [i \in 1..Len(kept) |->
                           [name |-> kept[i].name, data |-> kept[i].m.data, date_time |-> 0]],
            complete |-> TRUE, run |-> FALSE]
      Sound(name) == [present |-> TRUE, data |-> StagedBytes(
                         GenerateMinimalPbitStructure(ParseTableauWorkbook(WorkbookEmpty)), name)]
  IN {Archive(s, l, v, Sound("Settings"), Sound("Metadata")) :
        s \in MemberPool.DataModelSchema, l \in MemberPool.Layout,
        v \in {[present |-> TRUE, data |-> EncodeUtf8(<<"4",".","0">>)],
               [present |-> TRUE, data |-> EncodeUtf8(<<" ","\n">>)]}}
     \cup {Archive(Sound("DataModelSchema"), Sound("Report/Layout"), v, t, m) :
             v \in MemberPool.Version, t \in MemberPool.Settings, m \in MemberPool.Metadata}
     \cup {PbitAbsent, PbitIsDir}

InitTest ==
  /\ pc = "test"
  /\ pbit \in TestArchives
  /\ input = [kind |-> "missing", has_twb |-> FALSE, xml |-> NotXml]
  /\ tableau_data = NoData
  /\ template_structure = NoStructure
  /\ temp_dir = TempAbsent
  /\ walk = {}
  /\ created = "pending"
  /\ compat = FALSE
  /\ result = "pending"
  /\ exit_code = -1
  /\ prior = NoPrior
  /\ clock = 0
  /\ earlier = PbitAbsent
  /\ disk = <<>>
  /\ runs = <<>>

\* a call of test_pbit_compatibility(pbit_path): the archive is opened for
\* reading (Abc.py:742) and every exception ends in return False
\* (Abc.py:828-830)
TestCompatibility ==
  /\ pc = "test"
  /\ compat' = TestPbitCompatibility(pbit)
  /\ pc' = "tested"
  /\ UNCHANGED <<input, tableau_data, template_structure, temp_dir, walk, pbit, created,
                 result, exit_code>>
  /\ UNCHANGED aux

SpecTest == InitTest /\ [][TestCompatibility]_vars

-----------------------------------------------------------------------------
(* A run that finds no staging path in the output directory.               *)

InitClean == Init /\ temp_dir = TempAbsent

SpecClean == InitClean /\ [][Next]_vars
-----------------------------------------------------------------------------
(* Properties.  What the properties read from the state.                   *)

\* generate_minimal_pbit_structure has returned
Generated == template_structure # NoStructure

\* the only table of the generated data model
SchemaTable == JGet(JGet(template_structure.DataModelSchema, <<"m","o","d","e","l">>), <<"t","a","b","l","e","s">>).items[1]

\* the columns of that table as <<name, dataType>> pairs
SchemaColumns ==
  LET columns == JGet(SchemaTable, <<"c","o","l","u","m","n","s">>).items
  IN [i \in 1..Len(columns) |->
        <<JGet(columns[i], <<"n","a","m","e">>).s, JGet(columns[i], <<"d","a","t","a","T","y","p","e">>).s>>]

\* the pages of the generated report layout
LayoutPages == JGet(template_structure.Layout, <<"p","a","g","e","s">>).items

\* the column dicts of the first parsed datasource
FirstColumns == tableau_data.val.datasources[1].val.columns

\* the name the column filter works on: the raw name without brackets
Unbracketed(col) == RemoveChar(RemoveChar(col.val.name, "["), "]")

\* the column filter rejects the name for being empty (blank included) or
\* for its Measure prefix
RejectedName(name) == Strip(name) = <<>> \/ StartsWith(name, <<"M","e","a","s","u","r","e">>)

\* this run has written a complete archive at the output path
ArchiveWritten == pbit.run /\ pbit.complete

\* the names of the archive members in archive order
MemberNames == [i \in 1..Len(pbit.members) |-> pbit.members[i].name]

\* the data of the members of the archive with the given name
MemberData(name) ==
  {pbit.members[i].data : i \in {j \in 1..Len(pbit.members) : pbit.members[j].name = name}}

-----------------------------------------------------------------------------
\* C1: every archive create_pbit_file completes holds exactly the five
\* members DataModelSchema, Report/Layout, Version, Settings, Metadata, in
\* this order, whatever order the staging directory is listed in.
C1_MembersInWriteOrder ==
  ArchiveWritten =>
    MemberNames = <<"DataModelSchema", "Report/Layout", "Version", "Settings", "Metadata">>

-----------------------------------------------------------------------------
\* C2: the generated table has between 1 and 10 columns, no two columns
\* have the same name, and no column name starts with 'Measure'.
C2_ColumnsBounded ==
  Generated =>
    /\ Len(SchemaColumns) \in 1..10
    /\ \A i, j \in 1..Len(SchemaColumns) :
          i # j => SchemaColumns[i][1] # SchemaColumns[j][1]
    /\ \A i \in 1..Len(SchemaColumns) : ~StartsWith(SchemaColumns[i][1], <<"M","e","a","s","u","r","e">>)

\* a first datasource with more than ten acceptable columns after a Measure
\* column, cut at ten
C2_Witness ==
  /\ Generated
  /\ tableau_data.val.datasources # <<>>
  /\ Len(FirstColumns) > 11
  /\ StartsWith(Unbracketed(FirstColumns[1]), <<"M","e","a","s","u","r","e">>)
  /\ Len(SchemaColumns) = 10

-----------------------------------------------------------------------------
\* C3: for a workbook without datasources the table is named 'SampleData'
\* and its columns are the pair Category (text) and Value (numeric).
C3_NoDatasourceFallback ==
  (Generated /\ tableau_data.val.datasources = <<>>) =>
    /\ JGet(SchemaTable, <<"n","a","m","e">>).s = <<"S","a","m","p","l","e","D","a","t","a">>
    /\ SchemaColumns = << <<<<"C","a","t","e","g","o","r","y">>, <<"s","t","r","i","n","g">>>>, <<<<"V","a","l","u","e">>, <<"d","o","u","b","l","e">>>> >>

\* a workbook with worksheets and without datasources has been built
C3_Witness ==
  /\ Generated
  /\ tableau_data.val.datasources = <<>>
  /\ tableau_data.val.worksheets # <<>>
  /\ Len(SchemaColumns) = 2

-----------------------------------------------------------------------------
\* C4: when every column of the first datasource is rejected (empty name,
\* 'Measure' prefix) the table has the fallback pair Category/Value, even
\* if a later datasource has acceptable columns; the table never has zero
\* columns.
C4_AllRejectedFallback ==
  Generated =>
    /\ Len(SchemaColumns) >= 1
    /\ (/\ tableau_data.val.datasources # <<>>
        /\ \A i \in 1..Len(FirstColumns) : RejectedName(Unbracketed(FirstColumns[i])))
         => SchemaColumns = << <<<<"C","a","t","e","g","o","r","y">>, <<"s","t","r","i","n","g">>>>, <<<<"V","a","l","u","e">>, <<"d","o","u","b","l","e">>>> >>

\* the first datasource has columns, all rejected, and a second datasource
\* has acceptable ones
C4_Witness ==
  /\ Generated
  /\ Len(tableau_data.val.datasources) = 2
  /\ Len(FirstColumns) = 2
  /\ \A i \in 1..Len(FirstColumns) : RejectedName(Unbracketed(FirstColumns[i]))
  /\ \E i \in 1..Len(tableau_data.val.datasources[2].val.columns) :
        ~RejectedName(Unbracketed(tableau_data.val.datasources[2].val.columns[i]))
  /\ SchemaColumns = << <<<<"C","a","t","e","g","o","r","y">>, <<"s","t","r","i","n","g">>>>, <<<<"V","a","l","u","e">>, <<"d","o","u","b","l","e">>>> >>

-----------------------------------------------------------------------------
\* C5: in every archive produced, each of DataModelSchema, Report/Layout,
\* Settings and Metadata is the bytes FF FE followed by the UTF-16LE
\* encoding of a compact JSON document (the document that was generated),
\* and Version is the three UTF-8 bytes of '4.0' without a byte order mark.
C5_MemberEncodings ==
  ArchiveWritten =>
    /\ \A name \in {"DataModelSchema", "Report/Layout", "Settings", "Metadata"} :
          /\ MemberData(name) # {}
          /\ \A data \in MemberData(name) :
                /\ Len(data) >= 2
                /\ SubSeq(data, 1, 2) = <<255, 254>>
                /\ LET decoded == DecodeUtf16le(SubSeq(data, 3, Len(data)))
                       loaded == JsonLoads(decoded.text)
                   IN /\ decoded.ok
                      /\ loaded.ok
                      /\ JsonDumpsWith(loaded.val, <<",">>, <<":">>) = decoded.text
                      /\ loaded.val =
                           CASE name = "DataModelSchema" -> template_structure.DataModelSchema
                             [] name = "Report/Layout" -> template_structure.Layout
                             [] name = "Settings" -> template_structure.Settings
                             [] name = "Metadata" -> template_structure.Metadata
    /\ MemberData("Version") = {<<52, 46, 48>>}

\* a returned archive whose data model holds the euro sign (AC 20 in
\* UTF-16LE) and an escaped quote
C5_Witness ==
  /\ ArchiveWritten
  /\ created = "path"
  /\ \E data \in MemberData("DataModelSchema") :
        /\ \E i \in 2..(Len(data) \div 2) : data[(2 * i) - 1] = 172 /\ data[2 * i] = 32
        /\ \E i \in 2..((Len(data) \div 2) - 1) :
              /\ data[(2 * i) - 1] = 92 /\ data[2 * i] = 0
              /\ data[(2 * i) + 1] = 34 /\ data[(2 * i) + 2] = 0

-----------------------------------------------------------------------------
\* C6: the table is named after the first datasource; without a datasource
\* name it gets the connection's schema, without a schema 'SampleData'; a
\* resolved name that starts with 'federated.' becomes 'SampleData'.
C6_TableNameResolution ==
  (Generated /\ tableau_data.val.datasources # <<>>) =>
    LET ds == tableau_data.val.datasources[1]
        schema == ds.val.connection.val.schema
        resolved == IF ds.val.name # <<>> THEN ds.val.name
                    ELSE IF "schema" \in ds.val.connection.keys /\ schema # <<>> THEN schema
                    ELSE <<"S","a","m","p","l","e","D","a","t","a">>
    IN JGet(SchemaTable, <<"n","a","m","e">>).s =
         IF StartsWith(resolved, <<"f","e","d","e","r","a","t","e","d",".">>) THEN <<"S","a","m","p","l","e","D","a","t","a">> ELSE resolved

-----------------------------------------------------------------------------
\* C7: the layout has exactly one page, 1280 by 720; the page has no visual
\* container for a workbook without worksheets and exactly one for a
\* workbook with one or more worksheets.
C7_OnePageOneVisual ==
  Generated =>
    /\ Len(LayoutPages) = 1
    /\ JGet(LayoutPages[1], <<"w","i","d","t","h">>) = JNum(1280)
    /\ JGet(LayoutPages[1], <<"h","e","i","g","h","t">>) = JNum(720)
    /\ Len(JGet(LayoutPages[1], <<"v","i","s","u","a","l","C","o","n","t","a","i","n","e","r","s">>).items) =
         IF tableau_data.val.worksheets = <<>> THEN 0 ELSE 1

\* a workbook with three worksheets has been built
C7_Witness ==
  /\ Generated
  /\ Len(tableau_data.val.worksheets) = 3
  /\ Len(JGet(LayoutPages[1], <<"v","i","s","u","a","l","C","o","n","t","a","i","n","e","r","s">>).items) = 1

-----------------------------------------------------------------------------
\* C8: once create_pbit_file has returned, by success or by failure, the
\* staging directory does not exist.
C8_StagingRemoved == created # "pending" => temp_dir.state # "dir"

-----------------------------------------------------------------------------
\* C9: when create_pbit_file has failed (it returned None), neither a
\* partial nor a complete .pbit written by this run is at the output path.
C9_NoPackageOnFailure == created = "none" => ~pbit.run

-----------------------------------------------------------------------------
\* C10: when the compatibility test fails on a package that was written,
\* convert_file still returns True, main exits with 0, and the package
\* stays as it was written.
C10_ValidatorIsAdvisory ==
  /\ [](created = "path" /\ pc \in {"returned", "exited"} /\ ~compat =>
          /\ result = "True"
          /\ pc = "exited" => exit_code = 0
          /\ ArchiveWritten)
  /\ [][created = "path" => pbit' = pbit]_vars

\* a run that wrote a package the compatibility test rejects has exited
C10_Witness ==
  /\ pc = "exited"
  /\ created = "path"
  /\ ~compat
  /\ result = "True"
  /\ exit_code = 0
  /\ ArchiveWritten

-----------------------------------------------------------------------------
(* What the properties of a whole call read from the state.                *)

\* the input is one extraction fails on: a missing path, a .twbx without a
\* .twb, a document that is not XML
ExtractionFails ==
  \/ input.kind = "missing"
  \/ input.kind = "twbx" /\ ~input.has_twb
  \/ ~input.xml.wellformed

\* call r of two concurrent calls has returned the archive it returns when
\* it runs alone: the five members of its own structure, in some order
WroteAsAlone(r) ==
  LET structure ==
        GenerateMinimalPbitStructure(
          ParseTableauWorkbook(IF r = 1 THEN WorkbookSales ELSE WorkbookEmpty))
      archive == disk[PbitPath(r)]
  IN /\ runs[r].created = "path"
     /\ PbitPath(r) \in DOMAIN disk
     /\ archive.kind = "zip"
     /\ archive.complete
     /\ {[name |-> m.name, data |-> m.data] : m \in archive.members}
          = {[name |-> StagingWrites[k], data |-> StagedBytes(structure, StagingWrites[k])] :
               k \in 1..5}

-----------------------------------------------------------------------------
\* C11: two conversion runs at once, with any interleaving of their file
\* operations, whose output paths (output directory and base name) differ,
\* do not touch each other's files or staging directory: each returns the
\* archive it returns when it runs alone.
C11_RunsIndependent ==
  \A r \in DOMAIN runs : runs[r].pc = "returned" => WroteAsAlone(r)

-----------------------------------------------------------------------------
\* C12: convert_file for a workbook B on a converter that has converted a
\* workbook A gives the model, the layout and the archive members a fresh
\* converter gives for B: nothing of A's call, self.tableau_data included,
\* reaches B's output.
C12_ReuseIndependent ==
  /\ (pc \notin {"start", "extract", "parse"} /\ result = "pending") =>
        tableau_data = ParseTableauWorkbook(input.xml)
  /\ Generated =>
        template_structure = GenerateMinimalPbitStructure(ParseTableauWorkbook(input.xml))
  /\ (pc \in {"returned", "exited"} /\ ExtractionFails) => (~Generated /\ result = "False")
  /\ ArchiveWritten =>
        \A k \in 1..5 :
           MemberData(StagingWrites[k]) = {StagedBytes(template_structure, StagingWrites[k])}

\* the converter holds a workbook with a datasource of an earlier call, the
\* call for a workbook without datasources has written its archive over the
\* staging directory the earlier call left
C12_Witness ==
  /\ prior.kind = "twb"
  /\ prior.xml.datasources # <<>>
  /\ ArchiveWritten
  /\ created = "path"
  /\ input.xml.datasources = <<>>
  /\ input.xml.wellformed
  /\ tableau_data.val.datasources = <<>>
  /\ Len(pbit.members) = 5
  /\ JGet(SchemaTable, <<"n","a","m","e">>).s = <<"S","a","m","p","l","e","D","a","t","a">>

-----------------------------------------------------------------------------
\* C13: two calls of create_pbit_file with the same template structure and
\* the same output name write byte-identical archives: the same members in
\* the same order, with the same bytes and the same entry metadata.
C13_TwiceByteIdentical ==
  (earlier # PbitAbsent /\ created = "path") => pbit.members = earlier.members

-----------------------------------------------------------------------------
\* C14: when extraction fails (the input path is missing, the .twbx holds no
\* .twb, the XML does not parse) convert_file returns False, builds no
\* model, creates neither a staging directory nor a .pbit file, and main
\* exits with a code other than 0; main exits with 0 only when convert_file
\* returned True.
C14_ExtractionFailure ==
  /\ [](ExtractionFails =>
          /\ ~Generated
          /\ created = "pending"
          /\ pc \in {"returned", "exited"} => result = "False"
          /\ pc = "exited" => exit_code # 0)
  /\ [](pc = "exited" /\ exit_code = 0 => result = "True")
  /\ [][ExtractionFails => (temp_dir' = temp_dir /\ pbit' = pbit)]_vars

\* main has exited with 1 on a document that is not XML
C14_Witness ==
  /\ pc = "exited"
  /\ input.kind = "twb"
  /\ ~input.xml.wellformed
  /\ result = "False"
  /\ exit_code = 1
  /\ ~Generated
  /\ ~pbit.run

-----------------------------------------------------------------------------
(* What the column and query properties read from the state.               *)

\* a equals the lower-case word b up to the case of its ASCII letters
SameWord(a, b) ==
  /\ Len(a) = Len(b)
  /\ \A i \in 1..Len(b) :
        \/ a[i] = b[i]
        \/ \E k \in 1..26 : LowerLetters[k] = b[i] /\ UpperLetters[k] = a[i]

\* the target type the specification gives a source type
ExpectedType(t) ==
  IF SameWord(t, <<"s","t","r","i","n","g">>) THEN <<"s","t","r","i","n","g">>
  ELSE IF SameWord(t, <<"i","n","t","e","g","e","r">>) THEN <<"i","n","t","6","4">>
  ELSE IF SameWord(t, <<"r","e","a","l">>) THEN <<"d","o","u","b","l","e">>
  ELSE IF SameWord(t, <<"d","a","t","e">>) \/ SameWord(t, <<"d","a","t","e","t","i","m","e">>) THEN <<"d","a","t","e","T","i","m","e">>
  ELSE IF SameWord(t, <<"b","o","o","l","e","a","n">>) THEN <<"b","o","o","l","e","a","n">>
  ELSE <<"s","t","r","i","n","g">>

\* the first n elements of s
Take(s, n) == SubSeq(s, 1, IF Len(s) < n THEN Len(s) ELSE n)

\* the name of the j-th column of the first datasource, without brackets
RawName(j) == Unbracketed(FirstColumns[j])

\* the same name with leading and trailing whitespace trimmed
TrimmedName(j) == Strip(RawName(j))

\* the positions of the first datasource's columns that are neither rejected
\* nor a repeat of an earlier name
KeptPositions ==
  SelectSeq([j \in 1..Len(FirstColumns) |-> j],
            LAMBDA j : /\ ~RejectedName(RawName(j))
                       /\ \A k \in 1..(j - 1) : RawName(k) # RawName(j))

\* the same with every test made on the trimmed name
KeptTrimmedPositions ==
  SelectSeq([j \in 1..Len(FirstColumns) |-> j],
            LAMBDA j : /\ ~RejectedName(TrimmedName(j))
                       /\ \A k \in 1..(j - 1) : TrimmedName(k) # TrimmedName(j))

\* the expression of the only partition of the generated table
SchemaExpression ==
  JGet(JGet(JGet(SchemaTable, <<"p","a","r","t","i","t","i","o","n","s">>).items[1], <<"s","o","u","r","c","e">>), <<"e","x","p","r","e","s","s","i","o","n">>).s

\* the connection dict the query builder is given
ConnectionInfo ==
  IF tableau_data.val.datasources = <<>>
    THEN [keys |-> {}, val |-> [class |-> <<>>, server |-> <<>>, port |-> <<>>,
                                dbname |-> <<>>, schema |-> <<>>]]
    ELSE tableau_data.val.datasources[1].val.connection

\* the connector function the specification gives a connection class
ExpectedFamily(class) ==
  IF SameWord(class, <<"o","r","a","c","l","e">>) THEN <<"O","r","a","c","l","e",".","D","a","t","a","b","a","s","e">>
  ELSE IF SameWord(class, <<"m","y","s","q","l">>) THEN <<"M","y","S","Q","L",".","D","a","t","a","b","a","s","e">>
  ELSE IF SameWord(class, <<"p","o","s","t","g","r","e","s","q","l">>) THEN <<"P","o","s","t","g","r","e","S","Q","L",".","D","a","t","a","b","a","s","e">>
  ELSE <<"S","q","l",".","D","a","t","a","b","a","s","e">>

\* the text of e after its last line break
LastLine(e) ==
  LET breaks == {i \in 1..Len(e) : e[i] = "\n"}
      last == IF breaks = {} THEN 0 ELSE CHOOSE i \in breaks : \A j \in breaks : j <= i
  IN SubSeq(e, last + 1, Len(e))

\* the item selector of the expression: the text between 'Source{[' and ']}'
ItemSelector(e) ==
  LET open == <<"S","o","u","r","c","e","{","[">>
      from == CHOOSE i \in 1..Len(e) : SubSeq(e, i, i + Len(open) - 1) = open
      to == CHOOSE i \in (from + Len(open))..Len(e) :
              /\ SubSeq(e, i, i + 1) = <<"]","}">>
              /\ \A j \in (from + Len(open))..(i - 1) : SubSeq(e, j, j + 1) # <<"]","}">>
  IN SubSeq(e, from + Len(open), to - 1)

-----------------------------------------------------------------------------
\* C15: every accepted column name is the source name without '[' and ']'
\* and with leading and trailing whitespace trimmed, and the empty-name,
\* 'Measure'-prefix and duplicate tests are made on the trimmed name.
C15_NamesTrimmed ==
  (Generated /\ tableau_data.val.datasources # <<>> /\ KeptTrimmedPositions # <<>>) =>
    [i \in 1..Len(SchemaColumns) |-> SchemaColumns[i][1]] =
      Take([i \in 1..Len(KeptTrimmedPositions) |-> TrimmedName(KeptTrimmedPositions[i])],
           ColumnCap)

-----------------------------------------------------------------------------
\* C16: the accepted columns are the first 10 of the first datasource's
\* columns in their order, without the rejected names and without every
\* repeat of a name; a repeated name keeps the place and the mapped type of
\* its first occurrence.
C16_FirstTenInOrder ==
  (Generated /\ tableau_data.val.datasources # <<>> /\ KeptPositions # <<>>) =>
    SchemaColumns =
      Take([i \in 1..Len(KeptPositions) |->
              <<RawName(KeptPositions[i]),
                ExpectedType(FirstColumns[KeptPositions[i]].val.datatype)>>],
           ColumnCap)

\* Scenario C with a repeat: a Measure column and a second Region among
\* eleven other acceptable columns give Region with its first type and the
\* nine columns after it
C16_Witness ==
  /\ Generated
  /\ tableau_data.val.datasources # <<>>
  /\ Len(FirstColumns) = 13
  /\ RawName(2) = <<"M","e","a","s","u","r","e"," ","1">>
  /\ RawName(3) = RawName(1)
  /\ FirstColumns[3].val.datatype # FirstColumns[1].val.datatype
  /\ Len(KeptPositions) = 11
  /\ Len(SchemaColumns) = 10
  /\ SchemaColumns[1] = <<<<"R","e","g","i","o","n">>, <<"s","t","r","i","n","g">>>>
  /\ SchemaColumns[2][1] = RawName(4)

-----------------------------------------------------------------------------
\* C17: the type mapper is total and ignores letter case: string, integer,
\* real, date, datetime and boolean map to string, int64, double, dateTime,
\* dateTime and boolean, and every other input, the empty string included,
\* maps to string.
C17_TypeMapperTotal ==
  (Generated /\ tableau_data.val.datasources # <<>>) =>
    \A i \in 1..Len(KeptPositions) :
       i <= Len(SchemaColumns) =>
         /\ SchemaColumns[i][1] = RawName(KeptPositions[i])
         /\ SchemaColumns[i][2] \in {<<"s","t","r","i","n","g">>, <<"i","n","t","6","4">>, <<"d","o","u","b","l","e">>, <<"d","a","t","e","T","i","m","e">>, <<"b","o","o","l","e","a","n">>}
         /\ SchemaColumns[i][2] = ExpectedType(FirstColumns[KeptPositions[i]].val.datatype)

\* a type in capitals and a column without a type have been mapped
C17_Witness ==
  /\ Generated
  /\ tableau_data.val.datasources # <<>>
  /\ Len(FirstColumns) = 2
  /\ FirstColumns[1].val.datatype = <<"B","O","O","L","E","A","N">>
  /\ FirstColumns[2].val.datatype = <<>>
  /\ SchemaColumns = << <<<<"R","e","g","i","o","n">>, <<"b","o","o","l","e","a","n">>>>, <<<<"A","m","o","u","n","t">>, <<"s","t","r","i","n","g">>>> >>

-----------------------------------------------------------------------------
\* C18: in every connector family the server address of the expression is
\* 'server:port' when the connection has a non-empty port and 'server' when
\* it has none.
C18_PortInServerAddress ==
  Generated =>
    LET server == DictGet(ConnectionInfo, "server", <<"l","o","c","a","l","h","o","s","t">>)
        port == DictGet(ConnectionInfo, "port", <<>>)
        address == IF port # <<>> THEN server \o <<":">> \o port ELSE server
    IN IsSubstring(<<".","D","a","t","a","b","a","s","e","(","\"">> \o address \o <<"\"",","," ","\"">>, SchemaExpression)

-----------------------------------------------------------------------------
\* C19: the query builder dispatches on the connection class without regard
\* to letter case and always yields an expression: oracle, mysql and
\* postgresql select their own connector, every other class, the empty
\* class and a missing connection select Sql.Database.
C19_DispatchOnClass ==
  Generated =>
    StartsWith(SchemaExpression,
               <<"l","e","t","\n"," "," "," "," ","S","o","u","r","c","e"," ","="," ">>
                 \o ExpectedFamily(DictGet(ConnectionInfo, "class", <<>>)) \o <<"(","\"">>)

\* a class written in capitals has selected its connector
C19_Witness ==
  /\ Generated
  /\ DictGet(ConnectionInfo, "class", <<>>) = <<"O","R","A","C","L","E">>
  /\ StartsWith(SchemaExpression, <<"l","e","t","\n"," "," "," "," ","S","o","u","r","c","e"," ","="," ","O","r","a","c","l","e",".","D","a","t","a","b","a","s","e","(","\"","d","b","1">>)

-----------------------------------------------------------------------------
\* C20: in every connector family the item selector of the expression holds
\* the connection schema and the table name, and the last line of the
\* expression is the identifier the item is bound to.
C20_SchemaQualifiedItem ==
  Generated =>
    LET schema == DictGet(ConnectionInfo, "schema", <<"d","b","o">>)
        table == JGet(SchemaTable, <<"n","a","m","e">>).s
        bound == LStrip(LastLine(SchemaExpression))
    IN /\ IsSubstring(schema, ItemSelector(SchemaExpression))
       /\ IsSubstring(table, ItemSelector(SchemaExpression))
       /\ IsSubstring(<<",","\n"," "," "," "," ">> \o bound \o <<" ","="," ","S","o","u","r","c","e","{","[">>, SchemaExpression)

-----------------------------------------------------------------------------
(* What the chart properties read from the state: the visual of the        *)
(* generated page, and the first worksheet element of the input document.  *)

\* the page of the generated layout holds a visual
VisualEmitted == Generated /\ JGet(LayoutPages[1], <<"v","i","s","u","a","l","C","o","n","t","a","i","n","e","r","s">>).items # <<>>

\* the singleVisual entry of that visual
SingleVisual ==
  JGet(JGet(JGet(LayoutPages[1], <<"v","i","s","u","a","l","C","o","n","t","a","i","n","e","r","s">>).items[1], <<"c","o","n","f","i","g">>), <<"s","i","n","g","l","e","V","i","s","u","a","l">>)

\* the chart kind of the visual
ChartKind == JGet(SingleVisual, <<"v","i","s","u","a","l","T","y","p","e">>).s

\* the first worksheet element of the input document
FirstSheet == input.xml.worksheets[1]

\* the attr of its k-th encoding element and the field without brackets
ChannelOf(k) == DictGet(FirstSheet.encodings[k], "attr", <<>>)

FieldOf(k) == RemoveChar(RemoveChar(DictGet(FirstSheet.encodings[k], "field", <<>>), "["), "]")

\* the channels the worksheet has an encoding for
Channels == {ChannelOf(k) : k \in 1..Len(FirstSheet.encodings)}

\* the chart kind the lookup gives a mark class
ChartOfMark(c) ==
  IF SameWord(c, <<"b","a","r">>) \/ SameWord(c, <<"a","u","t","o","m","a","t","i","c">>) THEN <<"c","o","l","u","m","n","C","h","a","r","t">>
  ELSE IF SameWord(c, <<"l","i","n","e">>) THEN <<"l","i","n","e","C","h","a","r","t">>
  ELSE IF SameWord(c, <<"c","i","r","c","l","e">>) \/ SameWord(c, <<"s","h","a","p","e">>) THEN <<"s","c","a","t","t","e","r","C","h","a","r","t">>
  ELSE IF SameWord(c, <<"s","q","u","a","r","e">>) \/ SameWord(c, <<"g","a","n","t","t","b","a","r">>) THEN <<"b","a","r","C","h","a","r","t">>
  ELSE IF SameWord(c, <<"t","e","x","t">>) THEN <<"t","a","b","l","e">>
  ELSE IF SameWord(c, <<"m","a","p">>) THEN <<"m","a","p">>
  ELSE <<"c","o","l","u","m","n","C","h","a","r","t">>

-----------------------------------------------------------------------------
\* C21: the chart kind of the visual follows from the first worksheet alone.
\* Without an override it is the kind the lookup gives the class of the
\* worksheet's first mark, whatever the case of its letters (a mark without
\* a class counts as Automatic), and column chart for a worksheet without
\* marks or a class the lookup does not know; later marks do not count.
\* With both a color and a size encoding it is scatter chart; with three or
\* more encodings, and not both color and size, it is table.
C21_ChartKind ==
  VisualEmitted =>
    ChartKind =
      IF {<<"c","o","l","o","r">>, <<"s","i","z","e">>} \subseteq Channels THEN <<"s","c","a","t","t","e","r","C","h","a","r","t">>
      ELSE IF Cardinality(Channels) >= 3 THEN <<"t","a","b","l","e">>
      ELSE IF FirstSheet.marks = <<>> THEN <<"c","o","l","u","m","n","C","h","a","r","t">>
      ELSE ChartOfMark(DictGet(FirstSheet.marks[1], "class", <<"A","u","t","o","m","a","t","i","c">>))

\* a first worksheet with a GanttBar mark followed by a text mark, and a
\* second worksheet with a line mark, have given a bar chart
C21_Witness ==
  /\ VisualEmitted
  /\ Len(input.xml.worksheets) = 2
  /\ Len(FirstSheet.marks) = 2
  /\ FirstSheet.marks[1].val.class = <<"G","a","n","t","t","B","a","r">>
  /\ Channels = {}
  /\ ChartKind = <<"b","a","r","C","h","a","r","t">>

-----------------------------------------------------------------------------
(* What the field properties read from the state.                          *)

\* the name of the generated table
SchemaTableName == JGet(SchemaTable, <<"n","a","m","e">>).s

\* the names of its columns
SchemaColumnNames == {SchemaColumns[i][1] : i \in 1..Len(SchemaColumns)}

\* the field the visual shows in the role, Category or Y: what follows the
\* table name and the dot in the role's query reference
RoleIs(role, field) ==
  JGet(JGet(JGet(SingleVisual, <<"p","r","o","j","e","c","t","i","o","n","s">>), role).items[1], <<"q","u","e","r","y","R","e","f">>).s
    = Concat(<<SchemaTableName, <<".">>, field>>)

\* the worksheet maps a channel to one field, that of the channel's last
\* encoding element
LastOf(channel) ==
  CHOOSE k \in 1..Len(FirstSheet.encodings) :
    /\ ChannelOf(k) = channel
    /\ \A j \in (k + 1)..Len(FirstSheet.encodings) : ChannelOf(j) # channel

\* and keeps the channels in the order of their first encoding elements
FirstOf(channel) ==
  CHOOSE k \in 1..Len(FirstSheet.encodings) :
    /\ ChannelOf(k) = channel
    /\ \A j \in 1..(k - 1) : ChannelOf(j) # channel

\* the channels among the given ones whose field is the name of a column
Matching(channels) ==
  {c \in channels \cap Channels :
     FieldOf(LastOf(c)) # <<>> /\ FieldOf(LastOf(c)) \in SchemaColumnNames}

\* the field of the last of the given channels that matches, and the
\* default when none does
FieldFor(channels, default) ==
  IF Matching(channels) = {} THEN default
  ELSE FieldOf(LastOf(CHOOSE c \in Matching(channels) :
                        \A d \in Matching(channels) : FirstOf(d) <= FirstOf(c)))

-----------------------------------------------------------------------------
\* C22: the category field of the visual is the first column and the value
\* field the second column (the first when there is one column only),
\* unless an encoding of the first worksheet replaces it: an encoding on x
\* or columns whose field, without brackets, is the name of a column
\* replaces the category field, one on y or rows the value field.  An
\* encoding on another channel, with an empty field, or with a field that
\* is no column changes neither.
C22_CategoryAndValue ==
  VisualEmitted =>
    /\ RoleIs(<<"C","a","t","e","g","o","r","y">>, FieldFor({<<"x">>, <<"c","o","l","u","m","n","s">>}, SchemaColumns[1][1]))
    /\ RoleIs(<<"Y">>, FieldFor({<<"y">>, <<"r","o","w","s">>},
                             IF Len(SchemaColumns) > 1 THEN SchemaColumns[2][1]
                             ELSE SchemaColumns[1][1]))

\* three columns, an encoding on x that names a column and replaces the
\* category, an encoding on y that names no column and leaves the value
C22_Witness ==
  /\ VisualEmitted
  /\ Len(SchemaColumns) = 3
  /\ Len(FirstSheet.encodings) = 3
  /\ Channels = {<<"x">>, <<"y">>}
  /\ FieldOf(LastOf(<<"x">>)) = <<"A","m","o","u","n","t">>
  /\ FieldOf(LastOf(<<"y">>)) = <<"N","o","p","e">>
  /\ RoleIs(<<"C","a","t","e","g","o","r","y">>, <<"A","m","o","u","n","t">>)
  /\ RoleIs(<<"Y">>, <<"R","e","g","i","o","n">>)

-----------------------------------------------------------------------------
\* C30: when the first worksheet has both a color and a size encoding and
\* three or more encodings in all, the chart kind is scatter chart, not
\* table.
C30_ScatterExcludesTable ==
  (VisualEmitted /\ {<<"c","o","l","o","r">>, <<"s","i","z","e">>} \subseteq Channels /\ Cardinality(Channels) >= 3)
    => ChartKind = <<"s","c","a","t","t","e","r","C","h","a","r","t">>

\* a text mark with encodings on color, size and x has given a scatter chart
C30_Witness ==
  /\ VisualEmitted
  /\ Len(FirstSheet.marks) = 1
  /\ FirstSheet.marks[1].val.class = <<"t","e","x","t">>
  /\ Channels = {<<"c","o","l","o","r">>, <<"s","i","z","e">>, <<"x">>}
  /\ ChartKind = <<"s","c","a","t","t","e","r","C","h","a","r","t">>

-----------------------------------------------------------------------------
\* C23: in DataModelSchema a column of the text type has summarizeBy "none"
\* and a column of any other type has summarizeBy "sum"; of the fallback
\* pair, Category has "none" and Value has "sum".
C23_SummarizeBy ==
  Generated =>
    LET columns == JGet(SchemaTable, <<"c","o","l","u","m","n","s">>).items
    IN /\ \A i \in 1..Len(columns) :
            JGet(columns[i], <<"s","u","m","m","a","r","i","z","e","B","y">>).s =
              IF JGet(columns[i], <<"d","a","t","a","T","y","p","e">>).s = <<"s","t","r","i","n","g">> THEN <<"n","o","n","e">> ELSE <<"s","u","m">>
       /\ SchemaColumns[1][1] = <<"C","a","t","e","g","o","r","y">> /\ tableau_data.val.datasources = <<>> =>
            /\ Len(columns) = 2
            /\ SchemaColumns[2][1] = <<"V","a","l","u","e">>
            /\ JGet(columns[1], <<"s","u","m","m","a","r","i","z","e","B","y">>).s = <<"n","o","n","e">>
            /\ JGet(columns[2], <<"s","u","m","m","a","r","i","z","e","B","y">>).s = <<"s","u","m">>

\* a date column and a column without a type have been built: the first is
\* summed, the second is not
C23_Witness ==
  /\ Generated
  /\ SchemaColumns = << <<<<"R","e","g","i","o","n">>, <<"d","a","t","e","T","i","m","e">>>>, <<<<"A","m","o","u","n","t">>, <<"s","t","r","i","n","g">>>> >>
  /\ JGet(JGet(SchemaTable, <<"c","o","l","u","m","n","s">>).items[1], <<"s","u","m","m","a","r","i","z","e","B","y">>).s = <<"s","u","m">>
  /\ JGet(JGet(SchemaTable, <<"c","o","l","u","m","n","s">>).items[2], <<"s","u","m","m","a","r","i","z","e","B","y">>).s = <<"n","o","n","e">>

-----------------------------------------------------------------------------
(* What the properties of the compatibility test read from the archive.    *)

\* the archive has a member of the name
HasMember(name) == \E i \in 1..Len(pbit.members) : pbit.members[i].name = name

\* the JSON document of the member, read as the target application reads it
ArchiveDoc(name) == LoadJsonMember(ZipRead(pbit.members, name))

\* the member does not start with FF FE
LacksMark(name) ==
  LET data == ZipRead(pbit.members, name)
  IN Len(data) < 2 \/ data[1] # 255 \/ data[2] # 254

\* the member is a JSON object with the key
DocHasKey(name, key) ==
  /\ ArchiveDoc(name).ok
  /\ ArchiveDoc(name).val.t = "obj"
  /\ JHas(ArchiveDoc(name).val, key)

\* the Version member is UTF-8 text of whitespace only
VersionBlank ==
  LET version == DecodeUtf8(ZipRead(pbit.members, "Version"))
  IN version.ok /\ \A i \in 1..Len(version.text) : version.text[i] \in Whitespace

\* one of the defects for which the archive has to be rejected
Defective ==
  \/ \E name \in {"DataModelSchema", "Report/Layout", "Version", "Settings", "Metadata"} :
        ~HasMember(name)
  \/ \E name \in {"DataModelSchema", "Report/Layout", "Settings", "Metadata"} :
        LacksMark(name) \/ ~ArchiveDoc(name).ok
  \/ VersionBlank
  \/ ~DocHasKey("DataModelSchema", <<"m","o","d","e","l">>)
  \/ ~DocHasKey("Report/Layout", <<"p","a","g","e","s">>)

-----------------------------------------------------------------------------
\* C24: test_pbit_compatibility passes an archive only if every page listed
\* under "pages" in Report/Layout carries "id", "width" and "height".
C24_EveryPageChecked ==
  (pc = "tested" /\ compat) =>
    LET pages == JGet(ArchiveDoc("Report/Layout").val, <<"p","a","g","e","s">>).items
    IN \A i \in 1..Len(pages) :
          \A field \in {<<"i","d">>, <<"w","i","d","t","h">>, <<"h","e","i","g","h","t">>} :
             pages[i].t = "obj" /\ JHas(pages[i], field)

-----------------------------------------------------------------------------
\* C25: test_pbit_compatibility returns True or False for every archive and
\* leaves the archive as it is; it returns False when one of the five
\* required members is missing, when a member that holds JSON does not
\* start with FF FE or does not parse, when Version holds whitespace only,
\* when DataModelSchema has no "model" and when Report/Layout has no "pages".
C25_TestRejects ==
  /\ [](pc = "tested" => (compat \in BOOLEAN /\ (pbit.state = "file" /\ Defective => ~compat)))
  /\ [][pbit' = pbit]_vars

\* an archive whose only defect is a Version of a blank and a line break has
\* been rejected
C25_Witness ==
  /\ pc = "tested"
  /\ pbit.state = "file"
  /\ Len(pbit.members) = 5
  /\ VersionBlank
  /\ ZipRead(pbit.members, "Version") # <<>>
  /\ \A name \in {"DataModelSchema", "Report/Layout", "Settings", "Metadata"} :
        ~LacksMark(name) /\ ArchiveDoc(name).ok
  /\ DocHasKey("DataModelSchema", <<"m","o","d","e","l">>)
  /\ DocHasKey("Report/Layout", <<"p","a","g","e","s">>)
  /\ ~compat

-----------------------------------------------------------------------------
(* What the stage properties read from a step of the run.                  *)

\* extraction has completed: parse_tableau_workbook has returned a workbook
Extracted == tableau_data.keys # {} /\ tableau_data = ParseTableauWorkbook(input.xml)

\* the step is the check of the staged files, _validate_pbit_structure
StagingCheckStep == pc = "validate" /\ pc' # "validate"

\* the step is the test of the archive, test_pbit_compatibility
ArchiveTestStep == pc = "create_returned" /\ created = "path" /\ pc' = "returned"

\* the step writes a staging file or the archive
SerializeStep == temp_dir' # temp_dir \/ pbit' # pbit

\* the five staging files are written
StagingComplete == {StagingWrites[k] : k \in 1..5} \subseteq DOMAIN temp_dir.files

-----------------------------------------------------------------------------
\* C26: within one run the stages follow each other: the model and the
\* layout are built only after extraction has completed, nothing is staged
\* or archived before the model and the layout are built, and no validation
\* step runs before the archive has been completely written.
C26_StagesInOrder ==
  /\ [](Generated => Extracted)
  /\ [][SerializeStep => Generated]_vars
  /\ [][(StagingCheckStep \/ ArchiveTestStep) => ArchiveWritten]_vars

\* C26 as amended: the model and the layout are built only after extraction
\* has completed, and nothing is staged or archived before they are built;
\* the check of the staged files runs when the five staging files are
\* written and before the archive is opened, the archive is opened only
\* after that check, and the compatibility test runs only when the archive
\* has been completely written.
C26_StagesInOrderAmended ==
  /\ [](Generated => Extracted)
  /\ [][SerializeStep => Generated]_vars
  /\ [][StagingCheckStep => (StagingComplete /\ ~pbit.run)]_vars
  /\ [][pbit' # pbit => (StagingComplete /\ pc \in {"zip_open", "zip_add"})]_vars
  /\ [][ArchiveTestStep => ArchiveWritten]_vars

\* a run has gone through every stage: the archive is written and tested
C26_Witness ==
  /\ pc = "returned"
  /\ Extracted
  /\ Generated
  /\ ArchiveWritten
  /\ created = "path"
  /\ compat

-----------------------------------------------------------------------------
(* What the property of the first datasource and worksheet reads.          *)

\* the document cut down to its first datasource and its first worksheet
FirstOnly(xml) ==
  [xml EXCEPT !.datasources = Take(@, 1), !.worksheets = Take(@, 1), !.dashboards = 0]

\* what is built for a document
BuiltFor(xml) == GenerateMinimalPbitStructure(ParseTableauWorkbook(xml))

-----------------------------------------------------------------------------
\* C27: what is built for a workbook is what is built for its first
\* datasource and first worksheet alone: the same table with the same name,
\* columns and query expression, and the same page with the same visual,
\* chart kind, category field and value field.  So two workbooks with the
\* same first datasource and the same first worksheet (or none) are built
\* alike, whatever their later datasources, worksheets and dashboards hold.
C27_FirstOnlyCounts ==
  Generated =>
    /\ template_structure.DataModelSchema = BuiltFor(FirstOnly(input.xml)).DataModelSchema
    /\ template_structure.Layout = BuiltFor(FirstOnly(input.xml)).Layout

\* a workbook with a second datasource, whose columns are other ones, and
\* with three worksheets has been built
C27_Witness ==
  /\ Generated
  /\ Len(input.xml.datasources) = 2
  /\ input.xml.datasources[2].columns # input.xml.datasources[1].columns
  /\ Len(input.xml.worksheets) = 3
  /\ input.xml.worksheets[2] # input.xml.worksheets[1]
  /\ VisualEmitted

-----------------------------------------------------------------------------
(* What the property of the names in the package reads.                    *)

\* the prototype query of the visual
PrototypeQuery == JGet(SingleVisual, <<"p","r","o","t","o","t","y","p","e","Q","u","e","r","y">>)

\* the query expression of the partition of the table
PartitionExpression ==
  JGet(JGet(JGet(SchemaTable, <<"p","a","r","t","i","t","i","o","n","s">>).items[1], <<"s","o","u","r","c","e">>), <<"e","x","p","r","e","s","s","i","o","n">>).s

-----------------------------------------------------------------------------
\* C28: the names in a package agree.  The query expression of the
\* partition selects the table of the name DataModelSchema gives the table,
\* which is the default name when the datasource has a federated name; and
\* when the page has a visual, its category field and its value field are
\* names of columns of that table, and its query references and the entity
\* of its prototype query name that table.
C28_NamesAgree ==
  /\ Generated =>
       /\ IsSubstring(Concat(<<<<"=","\"">>, SchemaTableName, <<"\"","]","}","[","D","a","t","a","]">>>>), PartitionExpression)
       /\ JGet(JGet(SchemaTable, <<"p","a","r","t","i","t","i","o","n","s">>).items[1], <<"n","a","m","e">>).s
            = Concat(<<SchemaTableName, <<"-","P","a","r","t","i","t","i","o","n">>>>)
  /\ VisualEmitted =>
       /\ JGet(JGet(PrototypeQuery, <<"F","r","o","m">>).items[1], <<"E","n","t","i","t","y">>).s = SchemaTableName
       /\ \E category, value \in SchemaColumnNames :
             /\ RoleIs(<<"C","a","t","e","g","o","r","y">>, category)
             /\ RoleIs(<<"Y">>, value)
             /\ JGet(JGet(PrototypeQuery, <<"S","e","l","e","c","t">>).items[1], <<"N","a","m","e">>).s
                  = Concat(<<SchemaTableName, <<".">>, category>>)
             /\ JGet(JGet(PrototypeQuery, <<"S","e","l","e","c","t">>).items[2], <<"N","a","m","e">>).s
                  = Concat(<<<<"S","u","m","(">>, SchemaTableName, <<".">>, value, <<")">>>>)

\* a datasource with a federated name, a schema and a worksheet has been
\* built: the table, the query and the visual have the default name
C28_Witness ==
  /\ VisualEmitted
  /\ tableau_data.val.datasources # <<>>
  /\ StartsWith(tableau_data.val.datasources[1].val.name, <<"f","e","d","e","r","a","t","e","d",".">>)
  /\ tableau_data.val.datasources[1].val.connection.val.schema # <<>>
  /\ SchemaTableName = <<"S","a","m","p","l","e","D","a","t","a">>
  /\ IsSubstring(<<"I","t","e","m","=","\"","S","a","m","p","l","e","D","a","t","a","\"">>, PartitionExpression)
  /\ RoleIs(<<"C","a","t","e","g","o","r","y">>, <<"R","e","g","i","o","n">>)

-----------------------------------------------------------------------------
\* C29: in a run that starts without a staging directory, the check of the
\* staged files does not raise once the five files are written, and an
\* archive create_pbit_file returns passes test_pbit_compatibility: the
\* converter emits no package its own validators reject.
C29_OwnValidatorsAccept ==
  /\ pc = "validate" => ValidatePbitStructure(temp_dir)
  /\ created = "path" =>
       /\ ArchiveWritten
       /\ TestPbitCompatibility(pbit)
       /\ pc \in {"returned", "exited"} => compat

\* the workbook with names beyond ASCII has been converted and its archive
\* has passed the test
C29_Witness ==
  /\ pc = "returned"
  /\ input.xml = WorkbookEuro
  /\ created = "path"
  /\ Len(pbit.members) = 5
  /\ compat


====
